---------------------------- MODULE Spec2Model ----------------------------
(***************************************************************************)
(* A model of the MIR type checker, librustc_mir/transform/type_check.rs:  *)
(* the pass driver (TypeckMir::run_pass), the place resolver               *)
(* (TypeVerifier) and the flow-sensitive checker (TypeChecker).            *)
(*                                                                         *)
(* A body (Mir) is a record; types are records tagged by the field k.      *)
(* A broken-MIR bug is a record appended to the sequence bugs; a           *)
(* user-facing diagnostic is a record appended to diags.                   *)
(***************************************************************************)
EXTENDS Integers, Sequences, FiniteSets, TLC

VARIABLES
    err_count,        \* tcx.sess.err_count() when run_pass is entered
    mir,              \* the body under check
    pc,               \* the position of run_pass in its code
    li,               \* index of the next local declaration of typeck_mir
    bi,               \* index of the current basic block
    si,               \* index of the next statement of the current block
    errors_reported,  \* TypeVerifier.errors_reported
    verifier_span,    \* TypeVerifier.last_span
    last_span,        \* TypeChecker.last_span
    reported_errors,  \* TypeChecker.reported_errors
    bugs,             \* the broken-MIR bugs reported so far, in order
    diags,            \* the E0161 diagnostics emitted so far, in order
    visited,          \* what the TypeVerifier has walked over
    checked,          \* what typeck_mir has checked
    resolved,         \* the LvalueTy of the place the TypeVerifier resolved last
    subs              \* the calls of sub_types so far, in order

vars == << err_count, mir, pc, li, bi, si, errors_reported, verifier_span,
           last_span, reported_errors, bugs, diags, visited, checked, resolved,
           subs >>

-----------------------------------------------------------------------------
(* Bounds of the model.                                                    *)

MaxErrCount == 1
MaxStmts == 2
MaxBlocks == 3
MaxTargets == 2
MaxLocals == 3
MaxParams == 2
MaxArrayLen == 3
MaxField == 3
MaxTypeDepth == 2
MaxChain == 2
MaxGraphBlocks == 2

(* DUMMY_SP, and the span of the bodies of the model.                      *)
DUMMY_SP == 0
BodySpan == DUMMY_SP + 1

(* Option<BasicBlock>::None.  Blocks are numbered from 1.                  *)
NoBlock == 0

-----------------------------------------------------------------------------
(* Types (rustc::ty::Ty).                                                  *)

TInt == [k |-> "Int"]
TUsize == [k |-> "Usize"]
TBool == [k |-> "Bool"]
TChar == [k |-> "Char"]
TNever == [k |-> "Never"]
TStr == [k |-> "Str"]
TInfer == [k |-> "Infer"]
TErr == [k |-> "Error"]

TParam == [k |-> "Param"]
TArray(elem, len) == [k |-> "Array", elem |-> elem, len |-> len]
TSlice(elem) == [k |-> "Slice", elem |-> elem]
TRawPtr(ty) == [k |-> "RawPtr", ty |-> ty]
TRef(rg, ty) == [k |-> "Ref", rg |-> rg, ty |-> ty]
TAdt(def, arg) == [k |-> "Adt", def |-> def, arg |-> arg]
TBox(ty) == TAdt("Box", ty)
TTuple(tys) == [k |-> "Tuple", tys |-> tys]
TClosure(def) == [k |-> "Closure", def |-> def]
TGenerator(def) == [k |-> "Generator", def |-> def]
TAssoc(id) == [k |-> "Assoc", id |-> id]
FnSig(inputs, output, variadic) ==
    [inputs |-> inputs, output |-> output, variadic |-> variadic]
TFnDef(def, sig) == [k |-> "FnDef", def |-> def, sig |-> sig]
TFnPtr(sig) == [k |-> "FnPtr", sig |-> sig]

(* The component types of a type.                                          *)
Components(t) ==
    CASE t.k = "Array" -> {t.elem}
      [] t.k = "Slice" -> {t.elem}
      [] t.k = "RawPtr" -> {t.ty}
      [] t.k = "Ref" -> {t.ty}
      [] t.k = "Adt" -> {t.arg}
      [] t.k = "Tuple" -> {t.tys[i] : i \in 1..Len(t.tys)}
      [] OTHER -> {}

(* A type holds a type of kind kd, itself or in a component.              *)
RECURSIVE HasKind(_, _)
HasKind(t, kd) ==
    \/ t.k = kd
    \/ \E c \in Components(t) : HasKind(c, kd)

(* A type holds a reference whose region is bound outside the type.        *)
RECURSIVE HasBoundRegion(_)
HasBoundRegion(t) ==
    \/ (t.k = "Ref" /\ t.rg = "bound")
    \/ \E c \in Components(t) : HasBoundRegion(c)

needs_infer(t) == HasKind(t, "Infer")
has_escaping_regions(t) == HasBoundRegion(t)
references_error(t) == HasKind(t, "Error")

-----------------------------------------------------------------------------
(* The type context (TyCtxt): the items the bodies of the model refer to.  *)

(* Option<T>: None is <<>>, Some(x) is <<x>>.                              *)
None == << >>
Some(x) == << x >>

(* AdtDef::variants, each variant the declared types of its fields: a      *)
(* struct S<T> (T, usize), an enum E<T> with the variants V0 (i32) and     *)
(* V1 (T, bool), and the owning box Box<T> of a raw pointer to T.          *)
AdtVariants(def) ==
    CASE def = "S" -> << << TParam, TUsize >> >>
      [] def = "E" -> << << TInt >>, << TParam, TBool >> >>
      [] def = "Box" -> << << TRawPtr(TParam) >> >>

is_enum(def) == def = "E"
is_univariant(def) == Len(AdtVariants(def)) = 1
is_box(def) == def = "Box"
boxed_ty(t) == t.arg

(* ClosureSubsts::upvar_tys, for the closure c and the generator g.        *)
upvar_tys(def) ==
    CASE def = "c" -> << TInt, TBool >>
      [] def = "g" -> << TInt, TBool >>

(* ClosureSubsts::field_tys: all the fields of the generator g, its upvars *)
(* and behind them its state.                                              *)
field_tys(def) == upvar_tys(def) \o << TUsize >>

(* tcx.type_of(def_id) of the statics.                                     *)
type_of(def) ==
    CASE def = "G1" -> TInt
      [] def = "G2" -> TAssoc("ok")
      [] def = "G3" -> TAssoc("amb")

(* tcx.lang_items().box_free_fn()                                          *)
box_free_fn == "box_free"

(* FieldDef::ty(tcx, substs): the type parameter replaced by its argument. *)
RECURSIVE SubstTy(_, _)
SubstTy(t, arg) ==
    CASE t.k = "Param" -> arg
      [] t.k = "Array" -> TArray(SubstTy(t.elem, arg), t.len)
      [] t.k = "Slice" -> TSlice(SubstTy(t.elem, arg))
      [] t.k = "RawPtr" -> TRawPtr(SubstTy(t.ty, arg))
      [] t.k = "Ref" -> TRef(t.rg, SubstTy(t.ty, arg))
      [] OTHER -> t

builtin_deref(t) ==
    CASE t.k = "RawPtr" -> Some(t.ty)
      [] t.k = "Ref" -> Some(t.ty)
      [] t.k = "Adt" /\ is_box(t.def) -> Some(boxed_ty(t))
      [] OTHER -> None

builtin_index(t) ==
    CASE t.k = "Array" -> Some(t.elem)
      [] t.k = "Slice" -> Some(t.elem)
      [] OTHER -> None

is_sized(t) == t.k \notin {"Str", "Slice"}
is_never(t) == t.k = "Never"
is_integral(t) == t.k \in {"Int", "Usize"}
is_char(t) == t.k = "Char"
is_bool(t) == t.k = "Bool"

-----------------------------------------------------------------------------
(* The type-relation service (InferCtxt: sup, eq, normalize, and the       *)
(* FulfillmentContext).                                                    *)

(* 'static outlives every region.                                          *)
RegionSub(r1, r2) == r1 = r2 \/ r1 = "static"

(* infcx.sup(sup, sub): sub is a subtype of sup.  An error type and an     *)
(* inference variable relate to every type; references are covariant in    *)
(* their region and their referent.                                        *)
RECURSIVE SubTy(_, _)
SubTy(sub, sup) ==
    IF sub.k \in {"Error", "Infer"} \/ sup.k \in {"Error", "Infer"} THEN TRUE
    ELSE IF sub.k # sup.k THEN FALSE
    ELSE CASE sub.k = "Ref" -> RegionSub(sub.rg, sup.rg) /\ SubTy(sub.ty, sup.ty)
           [] sub.k = "Array" -> sub.len = sup.len /\ SubTy(sub.elem, sup.elem)
           [] sub.k = "Slice" -> SubTy(sub.elem, sup.elem)
           [] sub.k = "RawPtr" -> SubTy(sub.ty, sup.ty) /\ SubTy(sup.ty, sub.ty)
           [] sub.k = "Adt" -> sub.def = sup.def /\ SubTy(sub.arg, sup.arg)
           [] sub.k = "Tuple" ->
                 /\ Len(sub.tys) = Len(sup.tys)
                 /\ \A i \in 1..Len(sub.tys) : SubTy(sub.tys[i], sup.tys[i])
           [] OTHER -> sub = sup

(* infcx.eq(a, b)                                                          *)
EqTy(a, b) == SubTy(a, b) /\ SubTy(b, a)

(* traits::normalize: the associated type "ok" normalizes to i32; the      *)
(* associated type "amb" cannot be resolved and stays as it is.            *)
RECURSIVE NormalizeTy(_)
NormalizeTy(t) ==
    CASE t.k = "Assoc" -> (IF t.id = "ok" THEN TInt ELSE t)
      [] t.k = "Array" -> TArray(NormalizeTy(t.elem), t.len)
      [] t.k = "Slice" -> TSlice(NormalizeTy(t.elem))
      [] t.k = "RawPtr" -> TRawPtr(NormalizeTy(t.ty))
      [] t.k = "Ref" -> TRef(t.rg, NormalizeTy(t.ty))
      [] t.k = "Adt" -> TAdt(t.def, NormalizeTy(t.arg))
      [] OTHER -> t

(* select_all_or_error fails: an obligation on an unresolved associated    *)
(* type is left over.                                                      *)
Unsolved(t) == HasKind(t, "Assoc")

-----------------------------------------------------------------------------
(* Broken-MIR bugs.                                                        *)

(* Handler::span_bug, as a diagnostic sink: the report is recorded.        *)
span_bug(log, span, msg) == Append(log, [span |-> span, msg |-> msg])

(* mirbug: the state st with one more bug.  The message is the text of the *)
(* span_mirbug!, n the number it formats (-1: none) and phase the part of  *)
(* run_pass that is executing.                                             *)
mirbug(st, span, msg, n) ==
    [st EXCEPT !.bugs = span_bug(st.bugs, span,
                            [text |-> msg, n |-> n, phase |-> st.phase])]

-----------------------------------------------------------------------------
(* TypeChecker: the relation operations.  A state st is a record           *)
(* [errors_reported, bugs, panicked, phase, resolved, subs]; cx is         *)
(* [mir, vspan, cspan], the body, TypeVerifier.last_span and               *)
(* TypeChecker.last_span.  st.subs lists the calls of sub_types.           *)

(* fully_perform_op: ok is whether op succeeds, unsolved whether an        *)
(* obligation of it is left over.  The bug goes to TypeChecker.last_span.  *)
fully_perform_op(st, cx, ok, unsolved) ==
    IF ~ok
    THEN [st |-> st, ok |-> FALSE]
    ELSE [st |-> IF unsolved
                 THEN mirbug(st, cx.cspan, "errors selecting obligation", -1)
                 ELSE st,
          ok |-> TRUE]

sub_types(st, cx, sub, sup) ==
    fully_perform_op([st EXCEPT !.subs = Append(@, [sub |-> sub, sup |-> sup])],
                     cx, SubTy(sub, sup), Unsolved(sub) \/ Unsolved(sup))

eq_types(st, cx, a, b) ==
    fully_perform_op(st, cx, EqTy(a, b), Unsolved(a) \/ Unsolved(b))

(* normalize: the operation always succeeds.                               *)
normalize(st, cx, value) ==
    [st |-> fully_perform_op(st, cx, TRUE, Unsolved(NormalizeTy(value))).st,
     value |-> NormalizeTy(value)]

-----------------------------------------------------------------------------
(* TypeVerifier.                                                           *)

(* LvalueTy                                                                *)
LvTy(ty) == [k |-> "Ty", ty |-> ty]
LvDowncast(def, arg, index) ==
    [k |-> "Downcast", def |-> def, arg |-> arg, variant_index |-> index]
to_ty(lty) == IF lty.k = "Ty" THEN lty.ty ELSE TAdt(lty.def, lty.arg)

(* error(): its value is tcx.types.err, TErr.                              *)
error_unrecorded(st) == st

error(st) == [st EXCEPT !.errors_reported = TRUE]

(* span_mirbug_and_err! of the TypeVerifier                                *)
span_mirbug_and_err(st, cx, msg, n) == error(mirbug(st, cx.vspan, msg, n))

sanitize_type_ignoring_regions(st, cx, ty) ==
    IF needs_infer(ty) \/ references_error(ty)
    THEN [st |-> span_mirbug_and_err(st, cx, "bad type", -1), ty |-> TErr]
    ELSE [st |-> st, ty |-> ty]

sanitize_type(st, cx, ty) ==
    IF needs_infer(ty) \/ has_escaping_regions(ty) \/ references_error(ty)
    THEN [st |-> span_mirbug_and_err(st, cx, "bad type", -1), ty |-> TErr]
    ELSE [st |-> st, ty |-> ty]

(* Iterator::nth and slice::get: fields are counted from 0.                *)
nth(seq, i) == IF i < Len(seq) THEN Some(seq[i + 1]) ELSE None

(* field_ty: [st, ok, ty, field_count], Ok(ty) or                          *)
(* Err(OutOfRange { field_count }).                                        *)
FieldOk(st, ty) == [st |-> st, ok |-> TRUE, ty |-> ty, field_count |-> 0]
FieldOutOfRange(st, count) ==
    [st |-> st, ok |-> FALSE, ty |-> TErr, field_count |-> count]

variant_field_ty_declared(st, cx, fields, arg, field) ==
    IF nth(fields, field) # None
    THEN FieldOk(st, nth(fields, field)[1])
    ELSE FieldOutOfRange(st, Len(fields))

(* The end of field_ty: the field of a variant, normalized.                *)
variant_field_ty(st, cx, fields, arg, field) ==
    IF nth(fields, field) # None
    THEN LET n == normalize(st, cx, SubstTy(nth(fields, field)[1], arg))
         IN  FieldOk(n.st, n.value)
    ELSE FieldOutOfRange(st, Len(fields))

field_ty(st, cx, base_ty, field) ==
    IF base_ty.k = "Downcast"
    THEN variant_field_ty(st, cx,
             AdtVariants(base_ty.def)[base_ty.variant_index + 1],
             base_ty.arg, field)
    ELSE LET ty == base_ty.ty IN
         CASE ty.k = "Adt" /\ is_univariant(ty.def) ->
                 variant_field_ty(st, cx, AdtVariants(ty.def)[1], ty.arg, field)
           [] ty.k = "Closure" ->
                 IF nth(upvar_tys(ty.def), field) # None
                 THEN FieldOk(st, nth(upvar_tys(ty.def), field)[1])
                 ELSE FieldOutOfRange(st, Len(upvar_tys(ty.def)))
           [] ty.k = "Generator" ->
                 IF nth(upvar_tys(ty.def), field) # None
                 THEN FieldOk(st, nth(upvar_tys(ty.def), field)[1])
                 ELSE IF nth(field_tys(ty.def), field) # None
                 THEN FieldOk(st, nth(field_tys(ty.def), field)[1])
                 ELSE FieldOutOfRange(st, Len(field_tys(ty.def)) + 1)
           [] ty.k = "Tuple" ->
                 IF nth(ty.tys, field) # None
                 THEN FieldOk(st, nth(ty.tys, field)[1])
                 ELSE FieldOutOfRange(st, Len(ty.tys))
           [] OTHER ->
                 FieldOk(span_mirbug_and_err(st, cx, "can't project out of", -1),
                         TErr)

(* The widths of u32 and u64, in bits, scaled down: u64 is twice as wide   *)
(* as u32.                                                                 *)
U32Bits == 3
U32 == 2 ^ U32Bits
U64 == 2 ^ (2 * U32Bits)

(* u64::checked_sub                                                        *)
checked_sub(a, b) == IF a >= b THEN Some(a - b) ELSE None

min_size_u32(from, to) == (from + to) % U32

(* (from as u64) + (to as u64)                                             *)
min_size(from, to) == ((from % U64) + (to % U64)) % U64

(* Places: Lvalue::Local, Lvalue::Static and Lvalue::Projection.  Locals   *)
(* are counted from 0: local i is mir.local_decls[i + 1].                  *)
Local(index) == [k |-> "Local", index |-> index]
Static(def, ty) == [k |-> "Static", def |-> def, ty |-> ty]
Projection(base, elem) == [k |-> "Projection", base |-> base, elem |-> elem]

(* ProjectionElem                                                          *)
Deref == [k |-> "Deref"]
Index(i) == [k |-> "Index", i |-> i]
ConstantIndex == [k |-> "ConstantIndex"]
Subslice(from, to) == [k |-> "Subslice", from |-> from, to |-> to]
Downcast(def, index) == [k |-> "Downcast", def |-> def, index |-> index]
Field(field, fty) == [k |-> "Field", field |-> field, fty |-> fty]

local_ty(m, index) == m.local_decls[index + 1].ty

(* [st, lty]: the result of sanitize_lvalue and sanitize_projection.       *)
Resolved(st, lty) == [st |-> st, lty |-> lty]
ResolvedErr(st, cx, msg, n) ==
    Resolved(span_mirbug_and_err(st, cx, msg, n), LvTy(TErr))

sanitize_projection(st, cx, base, pi) ==
    LET base_ty == to_ty(base) IN
    CASE pi.k = "Deref" ->
            IF builtin_deref(base_ty) # None
            THEN Resolved(st, LvTy(builtin_deref(base_ty)[1]))
            ELSE ResolvedErr(st, cx, "deref of non-pointer", -1)
      [] pi.k = "Index" ->
            IF local_ty(cx.mir, pi.i) # TUsize
            THEN ResolvedErr(st, cx, "index by non-usize", pi.i)
            ELSE IF builtin_index(base_ty) # None
            THEN Resolved(st, LvTy(builtin_index(base_ty)[1]))
            ELSE ResolvedErr(st, cx, "index of non-array", -1)
      [] pi.k = "ConstantIndex" ->
            IF builtin_index(base_ty) # None
            THEN Resolved(st, LvTy(builtin_index(base_ty)[1]))
            ELSE ResolvedErr(st, cx, "index of non-array", -1)
      [] pi.k = "Subslice" ->
            CASE base_ty.k = "Array" ->
                    LET rest == checked_sub(base_ty.len, min_size(pi.from, pi.to))
                    IN  IF rest # None
                        THEN Resolved(st, LvTy(TArray(base_ty.elem, rest[1])))
                        ELSE ResolvedErr(st, cx, "taking too-small slice of", -1)
              [] base_ty.k = "Slice" -> Resolved(st, LvTy(base_ty))
              [] OTHER -> ResolvedErr(st, cx, "slice of non-array", -1)
      [] pi.k = "Downcast" ->
            IF base_ty.k = "Adt" /\ is_enum(base_ty.def) /\ base_ty.def = pi.def
            THEN IF pi.index >= Len(AdtVariants(base_ty.def))
                 THEN ResolvedErr(st, cx, "cast to variant but enum only has",
                                  Len(AdtVariants(base_ty.def)))
                 ELSE Resolved(st, LvDowncast(base_ty.def, base_ty.arg, pi.index))
            ELSE ResolvedErr(st, cx, "can't downcast", -1)
      [] pi.k = "Field" ->
            LET f == sanitize_type(st, cx, pi.fty)
                r == field_ty(f.st, cx, base, pi.field)
                e == eq_types(r.st, cx, r.ty, f.ty)
            IN  Resolved(
                    IF r.ok
                    THEN IF e.ok THEN e.st
                         ELSE mirbug(e.st, cx.vspan, "bad field access", -1)
                    ELSE mirbug(r.st, cx.vspan,
                                "accessed field but variant only has",
                                r.field_count),
                    LvTy(f.ty))

(* assert!(self.errors_reported): a failed assertion panics.               *)
assert_errors_reported(st) ==
    IF st.errors_reported THEN st ELSE [st EXCEPT !.panicked = TRUE]

RECURSIVE sanitize_lvalue_dispatching(_, _, _)
sanitize_lvalue_dispatching(st, cx, lvalue) ==
    CASE lvalue.k = "Local" ->
            Resolved(st, LvTy(local_ty(cx.mir, lvalue.index)))
      [] lvalue.k = "Static" ->
            LET s == sanitize_type(st, cx, lvalue.ty)
                n == normalize(s.st, cx, type_of(lvalue.def))
                e == eq_types(n.st, cx, n.value, s.ty)
            IN  Resolved(IF e.ok THEN e.st
                         ELSE mirbug(e.st, cx.vspan, "bad static type", -1),
                         LvTy(s.ty))
      [] lvalue.k = "Projection" ->
            LET b == sanitize_lvalue_dispatching(st, cx, lvalue.base) IN
            IF b.st.panicked THEN b
            ELSE sanitize_projection(b.st, cx, b.lty, lvalue.elem)

RECURSIVE sanitize_lvalue(_, _, _)
sanitize_lvalue(st, cx, lvalue) ==
    CASE lvalue.k = "Local" ->
            Resolved(st, LvTy(local_ty(cx.mir, lvalue.index)))
      [] lvalue.k = "Static" ->
            LET s == sanitize_type(st, cx, lvalue.ty)
                n == normalize(s.st, cx, type_of(lvalue.def))
                e == eq_types(n.st, cx, n.value, s.ty)
            IN  Resolved(IF e.ok THEN e.st
                         ELSE mirbug(e.st, cx.vspan, "bad static type", -1),
                         LvTy(s.ty))
      [] lvalue.k = "Projection" ->
            LET b == sanitize_lvalue(st, cx, lvalue.base) IN
            IF b.st.panicked THEN b
            ELSE IF b.lty.k = "Ty" /\ references_error(b.lty.ty)
            THEN Resolved(assert_errors_reported(b.st), LvTy(TErr))
            ELSE sanitize_projection(b.st, cx, b.lty, lvalue.elem)

-----------------------------------------------------------------------------
(* The types of places, operands and rvalues (rustc::mir::tcx).  The type  *)
(* of a projection that does not fit its base cannot be derived: there     *)
(* Lvalue::ty panics (bug!, unwrap, or the subtraction of the lengths).    *)

elem_fits(base, elem) ==
    LET base_ty == to_ty(base) IN
    CASE elem.k = "Deref" -> builtin_deref(base_ty) # None
      [] elem.k \in {"Index", "ConstantIndex"} -> builtin_index(base_ty) # None
      [] elem.k = "Subslice" ->
            \/ base_ty.k = "Slice"
            \/ (base_ty.k = "Array" /\ base_ty.len >= elem.from + elem.to)
      [] elem.k = "Downcast" -> base_ty.k = "Adt"
      [] elem.k = "Field" -> TRUE

projection_ty(base, elem) ==
    LET base_ty == to_ty(base) IN
    CASE elem.k = "Deref" /\ builtin_deref(base_ty) # None ->
            LvTy(builtin_deref(base_ty)[1])
      [] elem.k \in {"Index", "ConstantIndex"} /\ builtin_index(base_ty) # None ->
            LvTy(builtin_index(base_ty)[1])
      [] elem.k = "Subslice" /\ base_ty.k = "Array"
                             /\ base_ty.len >= elem.from + elem.to ->
            LvTy(TArray(base_ty.elem, base_ty.len - (elem.from + elem.to)))
      [] elem.k = "Subslice" /\ base_ty.k = "Slice" -> LvTy(base_ty)
      [] elem.k = "Downcast" /\ base_ty.k = "Adt" ->
            LvDowncast(base_ty.def, base_ty.arg, elem.index)
      [] elem.k = "Field" -> LvTy(elem.fty)

RECURSIVE lvalue_ty(_, _)
lvalue_ty(m, lvalue) ==
    CASE lvalue.k = "Local" -> LvTy(local_ty(m, lvalue.index))
      [] lvalue.k = "Static" -> LvTy(lvalue.ty)
      [] lvalue.k = "Projection" ->
            projection_ty(lvalue_ty(m, lvalue.base), lvalue.elem)

(* Lvalue::ty returns for this place.                                      *)
RECURSIVE derivable(_, _)
derivable(m, lvalue) ==
    \/ lvalue.k \in {"Local", "Static"}
    \/ /\ lvalue.k = "Projection"
       /\ derivable(m, lvalue.base)
       /\ elem_fits(lvalue_ty(m, lvalue.base), lvalue.elem)

(* Operand and Rvalue.  A constant carries its type and, for a function    *)
(* item, the function's DefId in fn ("" for any other literal).            *)
Consume(lvalue) == [k |-> "Consume", lvalue |-> lvalue]
Constant(ty, fn) == [k |-> "Constant", ty |-> ty, fn |-> fn]
Use(operand) == [k |-> "Use", operand |-> operand]

operand_ty(m, op) ==
    IF op.k = "Consume" THEN to_ty(lvalue_ty(m, op.lvalue)) ELSE op.ty

rvalue_ty(m, rv) == operand_ty(m, rv.operand)

(* Operand::ty returns for this operand, and for each of these operands.   *)
operand_derivable(m, op) == op.k = "Consume" => derivable(m, op.lvalue)
operands_derivable(m, ops) ==
    \A i \in 1..Len(ops) : operand_derivable(m, ops[i])

(* The state after a panic.                                                *)
ice(st) == [st EXCEPT !.panicked = TRUE]

-----------------------------------------------------------------------------
(* TypeVerifier: the Visitor.                                              *)

(* visit_span                                                              *)
visit_span(vspan, span) == IF span # DUMMY_SP THEN span ELSE vspan

(* visit_lvalue: the resolved type is kept in st.resolved.                 *)
visit_lvalue(st, cx, lvalue) ==
    LET r == sanitize_lvalue(st, cx, lvalue)
    IN  [r.st EXCEPT !.resolved = r.lty]

(* visit_constant                                                          *)
visit_constant(st, cx, constant) == sanitize_type(st, cx, constant.ty).st

(* super_operand                                                           *)
visit_operand(st, cx, op) ==
    IF op.k = "Consume"
    THEN visit_lvalue(st, cx, op.lvalue)
    ELSE visit_constant(st, cx, op)

(* visit_rvalue: super_rvalue, then the type of the rvalue is sanitized.   *)
visit_rvalue(st, cx, rv) ==
    LET s == visit_operand(st, cx, rv.operand)
    IN  IF s.panicked THEN s
        ELSE IF ~operand_derivable(cx.mir, rv.operand) THEN ice(s)
        ELSE sanitize_type(s, cx, rvalue_ty(cx.mir, rv)).st

(* What super_statement and super_terminator_kind visit, in order: each    *)
(* item is a place, an operand or an rvalue.                               *)
ItemL(lvalue) == [k |-> "lvalue", x |-> lvalue]
ItemO(op) == [k |-> "operand", x |-> op]
ItemR(rv) == [k |-> "rvalue", x |-> rv]

statement_items(stmt) ==
    CASE stmt.kind = "Assign" -> << ItemL(stmt.lvalue), ItemR(stmt.rvalue) >>
      [] stmt.kind = "SetDiscriminant" -> << ItemL(stmt.lvalue) >>
      [] OTHER -> << >>

terminator_items(term) ==
    CASE term.kind = "SwitchInt" -> << ItemO(term.discr) >>
      [] term.kind = "Drop" -> << ItemL(term.location) >>
      [] term.kind = "DropAndReplace" ->
            << ItemL(term.location), ItemO(term.value) >>
      [] term.kind = "Call" ->
            << ItemO(term.func) >>
            \o [i \in 1..Len(term.args) |-> ItemO(term.args[i])]
            \o (IF term.destination # None
                THEN << ItemL(term.destination[1].lvalue) >> ELSE << >>)
      [] term.kind = "Assert" ->
            << ItemO(term.cond) >>
            \o (IF term.msg.k = "BoundsCheck"
                THEN << ItemO(term.msg.len), ItemO(term.msg.index) >>
                ELSE << >>)
      [] term.kind = "Yield" -> << ItemO(term.value) >>
      [] OTHER -> << >>

visit_item(st, cx, item) ==
    CASE item.k = "lvalue" -> visit_lvalue(st, cx, item.x)
      [] item.k = "operand" -> visit_operand(st, cx, item.x)
      [] item.k = "rvalue" -> visit_rvalue(st, cx, item.x)

(* The items are visited in order; a panic ends the walk.                  *)
RECURSIVE visit_items(_, _, _)
visit_items(st, cx, items) ==
    IF items = << >> \/ st.panicked THEN st
    ELSE visit_items(visit_item(st, cx, Head(items)), cx, Tail(items))

-----------------------------------------------------------------------------
(* TypeChecker: the flow-sensitive checks.                                 *)

(* span_mirbug! of the TypeChecker                                         *)
span_mirbug(st, cx, msg, n) == mirbug(st, cx.cspan, msg, n)

(* span_bug!: the bug is reported and the compiler aborts.                 *)
span_bug_abort(st, span, msg) == ice(mirbug(st, span, msg, -1))

check_stmt(st, cx, stmt) ==
    CASE stmt.kind = "Assign" ->
            LET lv_ty == to_ty(lvalue_ty(cx.mir, stmt.lvalue))
                rv_ty == rvalue_ty(cx.mir, stmt.rvalue)
                r == sub_types(st, cx, rv_ty, lv_ty)
            IN  IF ~(derivable(cx.mir, stmt.lvalue)
                     /\ operand_derivable(cx.mir, stmt.rvalue.operand))
                THEN ice(st)
                ELSE IF r.ok THEN r.st
                ELSE span_mirbug(r.st, cx, "bad assignment", -1)
      [] stmt.kind = "SetDiscriminant" ->
            LET lvalue_type == to_ty(lvalue_ty(cx.mir, stmt.lvalue)) IN
            IF ~derivable(cx.mir, stmt.lvalue) THEN ice(st)
            ELSE IF ~(lvalue_type.k = "Adt" /\ is_enum(lvalue_type.def))
            THEN span_bug_abort(st, stmt.span,
                                "bad set discriminant: lhs is not an enum")
            ELSE IF stmt.variant_index >= Len(AdtVariants(lvalue_type.def))
            THEN span_bug_abort(st, stmt.span,
                                "bad set discriminant: value of of range")
            ELSE st
      [] OTHER -> st

(* tcx.erase_late_bound_regions                                            *)
RECURSIVE EraseTy(_)
EraseTy(t) ==
    CASE t.k = "Ref" -> TRef(IF t.rg = "bound" THEN "erased" ELSE t.rg,
                             EraseTy(t.ty))
      [] t.k = "RawPtr" -> TRawPtr(EraseTy(t.ty))
      [] t.k = "Adt" -> TAdt(t.def, EraseTy(t.arg))
      [] OTHER -> t

erase_late_bound_regions(sig) ==
    FnSig([i \in 1..Len(sig.inputs) |-> EraseTy(sig.inputs[i])],
          EraseTy(sig.output), sig.variadic)

(* normalize(&sig): one operation on the whole signature.                  *)
normalize_sig(st, cx, sig) ==
    [st |-> fully_perform_op(st, cx, TRUE,
                \/ Unsolved(NormalizeTy(sig.output))
                \/ \E i \in 1..Len(sig.inputs) :
                       Unsolved(NormalizeTy(sig.inputs[i]))).st,
     value |-> FnSig([i \in 1..Len(sig.inputs) |-> NormalizeTy(sig.inputs[i])],
                     NormalizeTy(sig.output), sig.variadic)]

check_call_dest_if_present(st, cx, sig, destination) ==
    IF destination # None
    THEN LET dest_ty == to_ty(lvalue_ty(cx.mir, destination[1].lvalue))
             r == sub_types(st, cx, sig.output, dest_ty)
         IN  IF r.ok THEN r.st
             ELSE span_mirbug(r.st, cx, "call dest mismatch", -1)
    ELSE st

check_call_dest(st, cx, sig, destination) ==
    IF destination # None
    THEN LET dest_ty == to_ty(lvalue_ty(cx.mir, destination[1].lvalue))
             r == sub_types(st, cx, sig.output, dest_ty)
         IN  IF ~derivable(cx.mir, destination[1].lvalue) THEN ice(st)
             ELSE IF r.ok THEN r.st
             ELSE span_mirbug(r.st, cx, "call dest mismatch", -1)
    ELSE IF ~is_never(sig.output)
         THEN span_mirbug(st, cx, "call to converging function w/o dest", -1)
         ELSE st

(* The loop of check_call_inputs over sig.inputs().iter().zip(args), from  *)
(* pair n (counted from 0).                                                *)
RECURSIVE check_call_pairs(_, _, _, _, _)
check_call_pairs(st, cx, inputs, args, n) ==
    IF n >= Len(inputs) \/ n >= Len(args) \/ st.panicked THEN st
    ELSE IF ~operand_derivable(cx.mir, args[n + 1]) THEN ice(st)
    ELSE LET r == sub_types(st, cx, operand_ty(cx.mir, args[n + 1]),
                            inputs[n + 1])
         IN  check_call_pairs(
                 IF r.ok THEN r.st ELSE span_mirbug(r.st, cx, "bad arg", n),
                 cx, inputs, args, n + 1)

wrong_number_of_args_strict(sig, args) == Len(args) # Len(sig.inputs)

(* The arity condition of check_call_inputs.                               *)
wrong_number_of_args(sig, args) ==
    \/ Len(args) < Len(sig.inputs)
    \/ (Len(args) > Len(sig.inputs) /\ ~sig.variadic)

check_call_inputs(st, cx, sig, args) ==
    check_call_pairs(
        IF wrong_number_of_args(sig, args)
        THEN span_mirbug(st, cx, "call with wrong # of args", -1)
        ELSE st,
        cx, sig.inputs, args, 0)

is_box_free_never(operand) == FALSE

is_box_free(operand) ==
    operand.k = "Constant" /\ operand.fn # "" /\ operand.fn = box_free_fn

check_box_free_inputs(st, cx, sig, args) ==
    IF Len(sig.inputs) # 1
    THEN span_mirbug(st, cx, "box_free should take 1 argument", -1)
    ELSE IF sig.inputs[1].k # "RawPtr"
    THEN span_mirbug(st, cx, "box_free should take a raw ptr", -1)
    ELSE IF Len(args) # 1
    THEN span_mirbug(st, cx, "box_free called with wrong # of args", -1)
    ELSE LET pointee_ty == sig.inputs[1].ty
             ty == operand_ty(cx.mir, args[1])
         IN  IF ~operand_derivable(cx.mir, args[1]) THEN ice(st)
             ELSE IF ~(ty.k = "RawPtr" \/ (ty.k = "Adt" /\ is_box(ty.def)))
             THEN span_mirbug(st, cx, "box_free called with bad arg ty", -1)
             ELSE LET arg_ty == IF ty.k = "RawPtr" THEN ty.ty ELSE boxed_ty(ty)
                      r == sub_types(st, cx, arg_ty, pointee_ty)
                  IN  IF r.ok THEN r.st
                      ELSE span_mirbug(r.st, cx, "bad box_free arg", -1)

(* The Call arm of check_terminator.                                       *)
check_call(st, cx, term) ==
    LET func_ty == operand_ty(cx.mir, term.func) IN
    IF ~operand_derivable(cx.mir, term.func) THEN ice(st)
    ELSE IF func_ty.k \notin {"FnDef", "FnPtr"}
    THEN span_mirbug(st, cx, "call to non-function", -1)
    ELSE LET n == normalize_sig(st, cx, erase_late_bound_regions(func_ty.sig))
             d == check_call_dest(n.st, cx, n.value, term.destination)
         IN  IF d.panicked THEN d
             ELSE IF is_box_free(term.func)
             THEN check_box_free_inputs(d, cx, n.value, term.args)
             ELSE check_call_inputs(d, cx, n.value, term.args)

(* The DropAndReplace arm: one check for the target, one for the unwind    *)
(* block when there is one.                                                *)
check_drop_and_replace(st, cx, term) ==
    LET lv_ty == to_ty(lvalue_ty(cx.mir, term.location))
        rv_ty == operand_ty(cx.mir, term.value)
        r1 == sub_types(st, cx, rv_ty, lv_ty)
        s1 == IF r1.ok THEN r1.st
              ELSE span_mirbug(r1.st, cx, "bad DropAndReplace", -1)
        r2 == sub_types(s1, cx, rv_ty, lv_ty)
    IN  IF term.unwind = NoBlock THEN s1
        ELSE IF r2.ok THEN r2.st
        ELSE span_mirbug(r2.st, cx, "bad DropAndReplace", -1)

(* The SwitchInt arm.                                                      *)
check_switch_int(st, cx, term) ==
    LET r == sub_types(st, cx, operand_ty(cx.mir, term.discr), term.switch_ty)
        s1 == IF r.ok THEN r.st ELSE span_mirbug(r.st, cx, "bad SwitchInt", -1)
    IN  IF ~is_integral(term.switch_ty) /\ ~is_char(term.switch_ty)
           /\ ~is_bool(term.switch_ty)
        THEN span_mirbug(s1, cx, "bad SwitchInt discr ty", -1)
        ELSE s1

(* The Assert arm.                                                         *)
check_assert(st, cx, term) ==
    LET s1 == IF operand_ty(cx.mir, term.cond) # TBool
              THEN span_mirbug(st, cx, "bad Assert, not bool", -1) ELSE st
        s2 == IF operand_ty(cx.mir, term.msg.len) # TUsize
              THEN span_mirbug(s1, cx, "bounds-check length non-usize", -1)
              ELSE s1
    IN  IF term.msg.k # "BoundsCheck" THEN s1
        ELSE IF operand_ty(cx.mir, term.msg.index) # TUsize
        THEN span_mirbug(s2, cx, "bounds-check index non-usize", -1)
        ELSE s2

(* The Yield arm.                                                          *)
check_yield(st, cx, term) ==
    IF cx.mir.yield_ty = None
    THEN span_mirbug(st, cx, "yield in non-generator", -1)
    ELSE LET r == sub_types(st, cx, operand_ty(cx.mir, term.value),
                            cx.mir.yield_ty[1])
         IN  IF r.ok THEN r.st
             ELSE span_mirbug(r.st, cx, "type of yield value", -1)

(* The places and operands whose type an arm of check_terminator derives   *)
(* before it checks anything.                                              *)
typed_first(m, term) ==
    CASE term.kind = "DropAndReplace" ->
            derivable(m, term.location) /\ operand_derivable(m, term.value)
      [] term.kind = "SwitchInt" -> operand_derivable(m, term.discr)
      [] term.kind = "Assert" ->
            /\ operand_derivable(m, term.cond)
            /\ term.msg.k = "BoundsCheck" =>
                   operands_derivable(m, << term.msg.len, term.msg.index >>)
      [] term.kind = "Yield" -> operand_derivable(m, term.value)
      [] OTHER -> TRUE

check_terminator(st, cx, term) ==
    IF ~typed_first(cx.mir, term) THEN ice(st)
    ELSE
    CASE term.kind = "DropAndReplace" -> check_drop_and_replace(st, cx, term)
      [] term.kind = "SwitchInt" -> check_switch_int(st, cx, term)
      [] term.kind = "Call" -> check_call(st, cx, term)
      [] term.kind = "Assert" -> check_assert(st, cx, term)
      [] term.kind = "Yield" -> check_yield(st, cx, term)
      [] OTHER -> st

assert_iscleanup_same(st, cx, bb, iscleanuppad) ==
    IF cx.mir.basic_blocks[bb].is_cleanup = iscleanuppad
    THEN span_mirbug(st, cx, "cleanuppad mismatch", bb)
    ELSE st

assert_iscleanup(st, cx, bb, iscleanuppad) ==
    IF cx.mir.basic_blocks[bb].is_cleanup # iscleanuppad
    THEN span_mirbug(st, cx, "cleanuppad mismatch", bb)
    ELSE st

(* for target in targets { self.assert_iscleanup(.., *target, ..) }        *)
RECURSIVE assert_iscleanup_all(_, _, _, _)
assert_iscleanup_all(st, cx, targets, iscleanuppad) ==
    IF targets = << >> THEN st
    ELSE assert_iscleanup_all(
             assert_iscleanup(st, cx, Head(targets), iscleanuppad),
             cx, Tail(targets), iscleanuppad)

(* The arms of check_iscleanup that have a target and an optional unwind   *)
(* or cleanup block: msg is "unwind on cleanup block" or "cleanup on       *)
(* cleanup block"; NoBlock stands for None.                                *)
check_target_unwind_as_target(st, cx, is_cleanup, target, unwind, msg) ==
    LET s1 == IF target # NoBlock
              THEN assert_iscleanup(st, cx, target, is_cleanup) ELSE st
    IN  IF unwind = NoBlock THEN s1
        ELSE assert_iscleanup(s1, cx, unwind, is_cleanup)

check_target_only(st, cx, is_cleanup, target, unwind, msg) ==
    IF target # NoBlock THEN assert_iscleanup(st, cx, target, is_cleanup) ELSE st

check_target_unwind(st, cx, is_cleanup, target, unwind, msg) ==
    LET s1 == IF target # NoBlock
              THEN assert_iscleanup(st, cx, target, is_cleanup) ELSE st
        s2 == IF is_cleanup THEN span_mirbug(s1, cx, msg, -1) ELSE s1
    IN  IF unwind = NoBlock THEN s1
        ELSE assert_iscleanup(s2, cx, unwind, TRUE)

(* check_iscleanup, after it has set last_span to the terminator's span:   *)
(* cx.cspan is that span.                                                  *)
check_iscleanup(st, cx, block_data) ==
    LET is_cleanup == block_data.is_cleanup
        term == block_data.terminator
    IN
    CASE term.kind = "Goto" -> assert_iscleanup(st, cx, term.target, is_cleanup)
      [] term.kind = "SwitchInt" ->
            assert_iscleanup_all(st, cx, term.targets, is_cleanup)
      [] term.kind = "Resume" ->
            IF ~is_cleanup
            THEN span_mirbug(st, cx, "resume on non-cleanup block!", -1)
            ELSE st
      [] term.kind = "Return" ->
            IF is_cleanup
            THEN span_mirbug(st, cx, "return on cleanup block", -1)
            ELSE st
      [] term.kind = "GeneratorDrop" ->
            IF is_cleanup
            THEN span_mirbug(st, cx, "generator_drop in cleanup block", -1)
            ELSE st
      [] term.kind = "Yield" ->
            LET s1 == IF is_cleanup
                      THEN span_mirbug(st, cx, "yield in cleanup block", -1)
                      ELSE st
                s2 == assert_iscleanup(s1, cx, term.resume, is_cleanup)
            IN  IF term.drop = NoBlock THEN s2
                ELSE assert_iscleanup(s2, cx, term.drop, is_cleanup)
      [] term.kind = "Unreachable" -> st
      [] term.kind \in {"Drop", "DropAndReplace"} ->
            check_target_unwind(st, cx, is_cleanup, term.target, term.unwind,
                                "unwind on cleanup block")
      [] term.kind = "Assert" ->
            check_target_unwind(st, cx, is_cleanup, term.target, term.cleanup,
                                "unwind on cleanup block")
      [] term.kind = "Call" ->
            check_target_unwind(st, cx, is_cleanup,
                IF term.destination # None THEN term.destination[1].target ELSE NoBlock,
                term.cleanup, "cleanup on cleanup block")
      [] term.kind = "FalseEdges" ->
            assert_iscleanup_all(
                assert_iscleanup(st, cx, term.real_target, is_cleanup),
                cx, term.imaginary_targets, is_cleanup)

(* mir.local_kind(local): local 0 is the return pointer, the next          *)
(* arg_count locals are the arguments.                                     *)
local_kind(m, local) ==
    IF local = 0 THEN "ReturnPointer"
    ELSE IF local <= m.arg_count THEN "Arg"
    ELSE "Var"

check_local_every(set, dg, m, local, local_decl) ==
    IF local_kind(m, local) \in {"ReturnPointer", "Arg"} \/ is_sized(local_decl.ty)
    THEN [set |-> set, diags |-> dg]
    ELSE [set |-> set \cup {[ty |-> local_decl.ty, span |-> local_decl.span]},
          diags |-> Append(dg, [ty |-> local_decl.ty, span |-> local_decl.span])]

(* check_local on the dedup set and the diagnostics: [set, diags].         *)
check_local(set, dg, m, local, local_decl) ==
    IF local_kind(m, local) \in {"ReturnPointer", "Arg"}
    THEN [set |-> set, diags |-> dg]
    ELSE LET entry == [ty |-> local_decl.ty, span |-> local_decl.span] IN
         IF ~is_sized(local_decl.ty)
         THEN [set |-> set \cup {entry},
               diags |-> IF entry \notin set THEN Append(dg, entry) ELSE dg]
         ELSE [set |-> set, diags |-> dg]

-----------------------------------------------------------------------------
(* run_pass, step by step.  pc is "entry", "visit_mir", "super_mir",       *)
(* "super_mir_end", "verified", "check_locals", "check_block",             *)
(* "check_iscleanup", "done", or "ice" after a panic.                      *)

NoLvalueTy == [k |-> "None"]

(* The state and the context the operators above work on.                  *)
St(phase) ==
    [errors_reported |-> errors_reported, bugs |-> bugs, panicked |-> FALSE,
     phase |-> phase, resolved |-> resolved, subs |-> subs]
Cx == [mir |-> mir, vspan |-> verifier_span, cspan |-> last_span]

(* The variables take the values of st; a panic ends the pass.             *)
Becomes(st, next_pc) ==
    /\ errors_reported' = st.errors_reported
    /\ bugs' = st.bugs
    /\ resolved' = st.resolved
    /\ subs' = st.subs
    /\ pc' = IF st.panicked THEN "ice" ELSE next_pc

NumLocals == Len(mir.local_decls)
NumBlocks == Len(mir.basic_blocks)
Block == mir.basic_blocks[bi]
NumStmts == Len(Block.statements)

(* run_pass up to verifier.visit_mir(mir): nothing is done when errors     *)
(* were reported before; otherwise the TypeChecker and the TypeVerifier    *)
(* are constructed.                                                        *)
skip_pass_above_one(count) == count > 1

(* if tcx.sess.err_count() > 0 { return; }                                 *)
skip_pass(count) == count > 0

RunPassEntry ==
    /\ pc = "entry"
    /\ pc' = IF skip_pass(err_count) THEN "done" ELSE "visit_mir"
    /\ last_span' = DUMMY_SP
    /\ reported_errors' = {}
    /\ verifier_span' = IF skip_pass(err_count) THEN verifier_span ELSE mir.span
    /\ errors_reported' = FALSE
    /\ UNCHANGED << err_count, mir, li, bi, si, bugs, diags, visited, checked,
                    resolved, subs >>

(* for local_decl in &mir.local_decls { self.sanitize_type(..) }, from     *)
(* the declaration of local n.                                             *)
RECURSIVE sanitize_local_decls_until_error(_, _, _)
sanitize_local_decls_until_error(st, cx, n) ==
    IF n >= Len(cx.mir.local_decls) \/ st.errors_reported THEN st
    ELSE sanitize_local_decls_until_error(
             sanitize_type(st, cx, local_ty(cx.mir, n)).st, cx, n + 1)

RECURSIVE sanitize_local_decls(_, _, _)
sanitize_local_decls(st, cx, n) ==
    IF n >= Len(cx.mir.local_decls) THEN st
    ELSE sanitize_local_decls(sanitize_type(st, cx, local_ty(cx.mir, n)).st,
                              cx, n + 1)

(* visit_mir up to self.super_mir(mir).                                    *)
VisitMir ==
    /\ pc = "visit_mir"
    /\ LET s1 == sanitize_type(St("verify"), Cx, mir.return_ty).st
           s2 == sanitize_local_decls(s1, Cx, 0)
       IN  Becomes(s2, IF s2.errors_reported THEN "verified" ELSE "super_mir")
    /\ visited' = visited \cup {<< "return_ty", 0, 0 >>}
                          \cup {<< "local_decl", n, 0 >> : n \in 0..(NumLocals - 1)}
    /\ bi' = 1
    /\ si' = 1
    /\ UNCHANGED << err_count, mir, li, verifier_span, last_span,
                    reported_errors, diags, checked >>

(* super_mir: one statement of the current block.                          *)
VisitStatement ==
    /\ pc = "super_mir"
    /\ si <= NumStmts
    /\ LET stmt == Block.statements[si]
           span == visit_span(verifier_span, stmt.span)
           cx == [Cx EXCEPT !.vspan = span]
       IN  /\ verifier_span' = span
           /\ Becomes(visit_items(St("verify"), cx, statement_items(stmt)),
                      "super_mir")
    /\ visited' = visited \cup {<< "statement", bi, si >>}
    /\ si' = si + 1
    /\ UNCHANGED << err_count, mir, li, bi, last_span, reported_errors, diags,
                    checked >>

(* super_mir: the terminator of the current block.                         *)
VisitTerminator ==
    /\ pc = "super_mir"
    /\ si > NumStmts
    /\ LET term == Block.terminator
           span == visit_span(verifier_span, term.span)
           cx == [Cx EXCEPT !.vspan = span]
       IN  /\ verifier_span' = span
           /\ Becomes(visit_items(St("verify"), cx, terminator_items(term)),
                      IF bi < NumBlocks THEN "super_mir" ELSE "super_mir_end")
    /\ visited' = visited \cup {<< "terminator", bi, 0 >>}
    /\ bi' = bi + 1
    /\ si' = 1
    /\ UNCHANGED << err_count, mir, li, last_span, reported_errors, diags,
                    checked >>

(* super_mir after the blocks: visit_local_decl on every local             *)
(* declaration, then visit_span(&mir.span).                                *)
SuperMirEnd ==
    /\ pc = "super_mir_end"
    /\ Becomes(sanitize_local_decls(St("verify"), Cx, 0), "verified")
    /\ verifier_span' = visit_span(verifier_span, mir.span)
    /\ UNCHANGED << err_count, mir, li, bi, si, last_span, reported_errors,
                    diags, visited, checked >>

(* sanitize_type on a type on its own: first on the return type of the     *)
(* body, then on what the call before returned.  li counts the calls.      *)
SanitizeType ==
    /\ pc = "sanitize"
    /\ li < 2
    /\ LET r == sanitize_type(St("verify"), Cx,
                              IF li = 0 THEN mir.return_ty ELSE resolved.ty)
       IN  Becomes([r.st EXCEPT !.resolved = LvTy(r.ty)], "sanitize")
    /\ li' = li + 1
    /\ UNCHANGED << err_count, mir, bi, si, verifier_span, last_span,
                    reported_errors, diags, visited, checked >>

(* run_pass after visit_mir: with errors_reported the pass returns;        *)
(* otherwise typeck_mir starts.                                            *)
typeck_always(reported) == FALSE

(* if verifier.errors_reported { return; }                                 *)
skip_typeck(reported) == reported

TypeckMirStart ==
    /\ pc = "verified"
    /\ pc' = IF skip_typeck(errors_reported) THEN "done" ELSE "check_locals"
    /\ last_span' = IF skip_typeck(errors_reported) THEN last_span ELSE mir.span
    /\ li' = 0
    /\ UNCHANGED << err_count, mir, bi, si, errors_reported, verifier_span,
                    reported_errors, bugs, diags, visited, checked, resolved,
                    subs >>

(* typeck_mir: check_local on the next local declaration.                  *)
CheckLocal ==
    /\ pc = "check_locals"
    /\ li < NumLocals
    /\ LET r == check_local(reported_errors, diags, mir, li,
                            mir.local_decls[li + 1])
       IN  /\ reported_errors' = r.set
           /\ diags' = r.diags
    /\ checked' = checked \cup {<< "local", li, 0 >>}
    /\ li' = li + 1
    /\ pc' = IF li + 1 < NumLocals THEN "check_locals" ELSE "check_block"
    /\ bi' = 1
    /\ si' = 1
    /\ UNCHANGED << err_count, mir, errors_reported, verifier_span, last_span,
                    bugs, visited, resolved, subs >>

(* typeck_mir: check_stmt on the next statement of the current block.      *)
CheckStmt ==
    /\ pc = "check_block"
    /\ si <= NumStmts
    /\ LET stmt == Block.statements[si]
           span == IF stmt.span # DUMMY_SP THEN stmt.span ELSE last_span
           cx == [Cx EXCEPT !.cspan = span]
       IN  /\ last_span' = span
           /\ Becomes(check_stmt(St("typeck"), cx, stmt), "check_block")
    /\ checked' = checked \cup {<< "stmt", bi, si >>}
    /\ si' = si + 1
    /\ UNCHANGED << err_count, mir, li, bi, verifier_span, reported_errors,
                    diags, visited >>

CheckTerminatorAtOwnSpan ==
    /\ pc = "check_block"
    /\ si > NumStmts
    /\ LET span == Block.terminator.span
           cx == [Cx EXCEPT !.cspan = span]
       IN  /\ last_span' = span
           /\ Becomes(check_terminator(St("typeck"), cx, Block.terminator),
                      "check_iscleanup")
    /\ checked' = checked \cup {<< "terminator", bi, 0 >>}
    /\ UNCHANGED << err_count, mir, li, bi, si, verifier_span,
                    reported_errors, diags, visited >>

(* typeck_mir: check_terminator on the current block.                      *)
CheckTerminator ==
    /\ pc = "check_block"
    /\ si > NumStmts
    /\ Becomes(check_terminator(St("typeck"), Cx, Block.terminator),
               "check_iscleanup")
    /\ checked' = checked \cup {<< "terminator", bi, 0 >>}
    /\ UNCHANGED << err_count, mir, li, bi, si, verifier_span, last_span,
                    reported_errors, diags, visited >>

(* typeck_mir: check_iscleanup on the current block, then the next block.  *)
CheckIsCleanup ==
    /\ pc = "check_iscleanup"
    /\ LET span == Block.terminator.span
           cx == [Cx EXCEPT !.cspan = span]
       IN  /\ last_span' = span
           /\ Becomes(check_iscleanup(St("typeck"), cx, Block),
                      IF bi < NumBlocks THEN "check_block" ELSE "done")
    /\ checked' = checked \cup {<< "iscleanup", bi, 0 >>}
    /\ bi' = bi + 1
    /\ si' = 1
    /\ UNCHANGED << err_count, mir, li, verifier_span, reported_errors, diags,
                    visited >>

-----------------------------------------------------------------------------
(* Bodies.                                                                 *)

LocalDecl(ty, span) == [ty |-> ty, span |-> span]

Assign(lvalue, rvalue) ==
    [kind |-> "Assign", lvalue |-> lvalue, rvalue |-> rvalue, span |-> DUMMY_SP]
SetDiscriminant(lvalue, variant_index) ==
    [kind |-> "SetDiscriminant", lvalue |-> lvalue,
     variant_index |-> variant_index, span |-> DUMMY_SP]
Nop == [kind |-> "Nop", span |-> DUMMY_SP]

Goto(target) == [kind |-> "Goto", target |-> target, span |-> DUMMY_SP]
SwitchInt(discr, switch_ty, targets) ==
    [kind |-> "SwitchInt", discr |-> discr, switch_ty |-> switch_ty,
     targets |-> targets, span |-> DUMMY_SP]
Resume == [kind |-> "Resume", span |-> DUMMY_SP]
Return == [kind |-> "Return", span |-> DUMMY_SP]
GeneratorDrop == [kind |-> "GeneratorDrop", span |-> DUMMY_SP]
Unreachable == [kind |-> "Unreachable", span |-> DUMMY_SP]
Drop(location, target, unwind) ==
    [kind |-> "Drop", location |-> location, target |-> target,
     unwind |-> unwind, span |-> DUMMY_SP]
DropAndReplace(location, value, target, unwind) ==
    [kind |-> "DropAndReplace", location |-> location, value |-> value,
     target |-> target, unwind |-> unwind, span |-> DUMMY_SP]
Call(func, args, destination, cleanup) ==
    [kind |-> "Call", func |-> func, args |-> args,
     destination |-> destination, cleanup |-> cleanup, span |-> DUMMY_SP]
Dest(lvalue, target) == Some([lvalue |-> lvalue, target |-> target])
AssertTerm(cond, msg, target, cleanup) ==
    [kind |-> "Assert", cond |-> cond, msg |-> msg, target |-> target,
     cleanup |-> cleanup, span |-> DUMMY_SP]
OtherMsg == [k |-> "Other"]
BoundsCheck(len, index) == [k |-> "BoundsCheck", len |-> len, index |-> index]
Yield(value, resume, drop) ==
    [kind |-> "Yield", value |-> value, resume |-> resume, drop |-> drop,
     span |-> DUMMY_SP]
FalseEdges(real_target, imaginary_targets) ==
    [kind |-> "FalseEdges", real_target |-> real_target,
     imaginary_targets |-> imaginary_targets, span |-> DUMMY_SP]

BasicBlockData(statements, terminator, is_cleanup) ==
    [statements |-> statements, terminator |-> terminator,
     is_cleanup |-> is_cleanup]

Mir(return_ty, local_decls, arg_count, yield_ty, basic_blocks) ==
    [return_ty |-> return_ty, local_decls |-> local_decls,
     arg_count |-> arg_count, yield_ty |-> yield_ty, span |-> BodySpan,
     basic_blocks |-> basic_blocks]

(* The sequences over S of length lo to hi.                                *)
SeqsOf(S, lo, hi) == UNION {[1..n -> S] : n \in lo..hi}

(* The span of statement s of block b, and of the terminator of block b.   *)
StmtSpan(b, s) == 10 * b + s
TermSpan(b) == 10 * b

(* The statements stmts as the statements of block b, and the terminator   *)
(* term as its terminator, with their spans.                               *)
Spanned(stmts, b) ==
    [s \in 1..Len(stmts) |-> [stmts[s] EXCEPT !.span = StmtSpan(b, s)]]
SpannedTerm(term, b) == [term EXCEPT !.span = TermSpan(b)]
Blk(stmts, term, is_cleanup, b) ==
    BasicBlockData(Spanned(stmts, b), SpannedTerm(term, b), is_cleanup)

-----------------------------------------------------------------------------
(* The state before run_pass is entered for the body m, or (for a          *)
(* specification of one function) where its code reaches the position p.   *)
Start(m, e, p) ==
    /\ mir = m
    /\ err_count = e
    /\ pc = p
    /\ li = 0
    /\ bi = 1
    /\ si = 1
    /\ errors_reported = FALSE
    /\ verifier_span = IF p = "entry" THEN DUMMY_SP ELSE m.span
    /\ last_span = IF p \in {"check_locals", "check_block", "check_iscleanup"}
                   THEN m.span ELSE DUMMY_SP
    /\ reported_errors = {}
    /\ bugs = << >>
    /\ diags = << >>
    /\ visited = {}
    /\ checked = {}
    /\ resolved = NoLvalueTy
    /\ subs = << >>

(* The whole pass, on bodies of two blocks: the first holds up to MaxStmts *)
(* statements and goes to the second, which holds at most one.             *)
IntConst == Constant(TInt, "")
DriverStmts ==
    { Assign(Local(0), Use(IntConst)),
      Assign(Local(0), Use(Constant(TInfer, ""))),
      Assign(Projection(Local(0), Deref), Use(IntConst)),
      Assign(Static("G1", TBool), Use(Constant(TBool, ""))),
      Assign(Local(0), Use(Constant(TBool, ""))),
      SetDiscriminant(Local(0), 0) }
DriverTerms == { Return, Resume }
DriverBodies ==
    { Mir(rt, << LocalDecl(TInt, 2), LocalDecl(lt, 3) >>, 0, None,
          << Blk(s1, Goto(2), FALSE, 1), Blk(s2, t2, FALSE, 2) >>) :
        rt \in {TInt, TErr}, lt \in {TInt, TInfer, TStr},
        s1 \in SeqsOf(DriverStmts, 0, MaxStmts),
        s2 \in SeqsOf(DriverStmts, 0, 1), t2 \in DriverTerms }

Init == \E m \in DriverBodies, e \in 0..MaxErrCount : Start(m, e, "entry")

Next ==
    \/ RunPassEntry
    \/ VisitMir
    \/ VisitStatement
    \/ VisitTerminator
    \/ SuperMirEnd
    \/ TypeckMirStart
    \/ CheckLocal
    \/ CheckStmt
    \/ CheckTerminator
    \/ CheckIsCleanup

Spec == Init /\ [][Next]_vars

-----------------------------------------------------------------------------
(* Properties of the whole pass.                                           *)

(* The resolver's walk is over and run_pass goes on, or has returned.      *)
ResolverFinished ==
    /\ err_count = 0
    /\ pc \in {"verified", "check_locals", "check_block", "check_iscleanup",
               "done"}

(* sanitize_type reports a bug on this type.                               *)
BadType(ty) == needs_infer(ty) \/ has_escaping_regions(ty) \/ references_error(ty)
BadLocals == {n \in 0..(NumLocals - 1) : BadType(local_ty(mir, n))}
DeclsSane == ~BadType(mir.return_ty) /\ BadLocals = {}

DeclsVisited ==
    /\ << "return_ty", 0, 0 >> \in visited
    /\ \A n \in 0..(NumLocals - 1) : << "local_decl", n, 0 >> \in visited
BodyElements ==
    {<< "terminator", b, 0 >> : b \in 1..NumBlocks}
    \cup UNION {{<< "statement", b, s >> :
                    s \in 1..Len(mir.basic_blocks[b].statements)} :
                b \in 1..NumBlocks}
BodyVisited == BodyElements \subseteq visited
BodyUnvisited == BodyElements \cap visited = {}

VerifyBugs == {i \in 1..Len(bugs) : bugs[i].msg.phase = "verify"}
TypeckBugs == {i \in 1..Len(bugs) : bugs[i].msg.phase = "typeck"}

(* C1: when errors were counted before run_pass is entered, the pass does  *)
(* nothing for the body: the TypeVerifier walks over nothing, typeck_mir   *)
(* checks nothing, and no bug and no diagnostic is emitted.  With no error *)
(* counted the TypeVerifier is run.                                        *)
C1_PassSkippedOnErrors ==
    /\ err_count > 0 =>
          /\ pc \in {"entry", "done"}
          /\ visited = {} /\ checked = {}
          /\ bugs = << >> /\ diags = << >>
    /\ (err_count = 0 /\ pc \notin {"entry", "visit_mir"}) =>
          << "return_ty", 0, 0 >> \in visited

C1_Witness == err_count > 0 /\ pc = "done" /\ ~DeclsSane

(* C2: once the TypeVerifier has reported a bug, none of check_local,      *)
(* check_stmt, check_terminator and check_iscleanup is executed.           *)
C2_NoCheckAfterResolverBug == VerifyBugs # {} => checked = {}

(* C3, as claimed: after a bug on the return type, on a local declaration  *)
(* or in a statement, the resolver still walks over every statement and    *)
(* terminator of the body.                                                 *)
C3_WalkAlwaysComplete == ResolverFinished => DeclsVisited /\ BodyVisited

(* C3, amended: the resolver is finished before flow-sensitive checking    *)
(* starts; it has sanitized the return type and every local declaration,   *)
(* each bad one reported; after a bug on one of them it has walked over no *)
(* statement and no terminator, and otherwise over all of them, whatever   *)
(* bugs their statements have.                                             *)
C3_WalkCompleteUnlessBadDecl ==
    /\ checked # {} => DeclsVisited /\ BodyVisited
    /\ ResolverFinished =>
          /\ DeclsVisited
          /\ IF DeclsSane
             THEN BodyVisited
             ELSE /\ BodyUnvisited
                  /\ Len(bugs) = Cardinality(BadLocals)
                                 + (IF BadType(mir.return_ty) THEN 1 ELSE 0)

C3_Witness ==
    /\ pc = "done" /\ err_count = 0
    /\ DeclsSane /\ BodyVisited
    /\ Cardinality(VerifyBugs) >= 2
    /\ Len(mir.basic_blocks[1].statements) >= 2

(* What the resolver and check_stmt report on one statement taken alone.   *)
AloneSt(phase) ==
    [errors_reported |-> FALSE, bugs |-> << >>, panicked |-> FALSE,
     phase |-> phase, resolved |-> NoLvalueTy, subs |-> << >>]
VerifiedAlone(stmt) == visit_items(AloneSt("verify"), Cx, statement_items(stmt))
CheckedAlone(stmt) == check_stmt(AloneSt("typeck"), Cx, stmt)

(* The statement has one failure that the resolver reports through         *)
(* error(); it has a failure that only check_stmt finds; it has none.      *)
SanitizeFailure(stmt) ==
    Len(VerifiedAlone(stmt).bugs) = 1 /\ VerifiedAlone(stmt).errors_reported
FlowFailure(stmt) ==
    VerifiedAlone(stmt).bugs = << >> /\ CheckedAlone(stmt).bugs # << >>
Fails(stmt) == VerifiedAlone(stmt).bugs # << >> \/ FlowFailure(stmt)

(* The statements of the body, in the order of the blocks.                 *)
RECURSIVE StatementsFrom(_)
StatementsFrom(b) ==
    IF b > NumBlocks THEN << >>
    ELSE mir.basic_blocks[b].statements \o StatementsFrom(b + 1)
AllStatements == StatementsFrom(1)

(* Statement k is the first that fails, its failure is one                 *)
(* sanitize-level failure, and several later statements fail.              *)
CascadeAt(k) ==
    /\ \A j \in 1..(k - 1) : ~Fails(AllStatements[j])
    /\ SanitizeFailure(AllStatements[k])
    /\ Cardinality({j \in (k + 1)..Len(AllStatements) :
                       Fails(AllStatements[j])}) >= 2
Cascade == \E k \in 1..Len(AllStatements) : CascadeAt(k)

(* The same, and every later failure is one only check_stmt finds.         *)
FlowCascade ==
    \E k \in 1..Len(AllStatements) :
       /\ CascadeAt(k)
       /\ \A j \in (k + 1)..Len(AllStatements) :
             VerifiedAlone(AllStatements[j]).bugs = << >>

RECURSIVE SumVerifiedAlone(_)
SumVerifiedAlone(stmts) ==
    IF stmts = << >> THEN 0
    ELSE Len(VerifiedAlone(Head(stmts)).bugs) + SumVerifiedAlone(Tail(stmts))

(* C4, as claimed: a body with sane declarations, one sanitize-level       *)
(* failure in an early statement and several failures in later statements  *)
(* yields exactly one bug report.                                          *)
C4_OneReportPerBody ==
    (pc = "done" /\ err_count = 0 /\ DeclsSane /\ Cascade) => Len(bugs) = 1

(* C4, amended: on such a body flow-sensitive checking never runs and      *)
(* reports nothing, and the resolver reports every failure it finds, one   *)
(* statement after the other: the body yields exactly one bug report when  *)
(* the later failures are ones only flow-sensitive checking would find.    *)
C4_ResolverReportsOnly ==
    (DeclsSane /\ Cascade) =>
        /\ checked = {} /\ TypeckBugs = {}
        /\ pc # "ice"
        /\ (pc = "done" /\ err_count = 0) =>
              /\ Len(bugs) = SumVerifiedAlone(AllStatements)
              /\ FlowCascade => Len(bugs) = 1

C4_Witness ==
    pc = "done" /\ err_count = 0 /\ DeclsSane /\ FlowCascade /\ Len(bugs) = 1

-----------------------------------------------------------------------------
(* check_iscleanup on one block.  The body has MaxBlocks blocks with any   *)
(* is_cleanup tags; the first has a terminator of any kind with any        *)
(* successors among the blocks, the others are successors only.            *)

Blocks == 1..MaxBlocks
OptBlocks == {NoBlock} \cup Blocks
CleanupTerms ==
    {Resume, Return, GeneratorDrop, Unreachable}
    \cup {Goto(t) : t \in Blocks}
    \cup {SwitchInt(IntConst, TInt, ts) : ts \in SeqsOf(Blocks, 1, MaxTargets)}
    \cup {Yield(IntConst, r, d) : r \in Blocks, d \in OptBlocks}
    \cup {Drop(Local(0), t, u) : t \in Blocks, u \in OptBlocks}
    \cup {DropAndReplace(Local(0), IntConst, t, u) :
             t \in Blocks, u \in OptBlocks}
    \cup {AssertTerm(Constant(TBool, ""), OtherMsg, t, u) :
             t \in Blocks, u \in OptBlocks}
    \cup {Call(IntConst, << >>, Dest(Local(0), t), u) :
             t \in Blocks, u \in OptBlocks}
    \cup {Call(IntConst, << >>, None, u) : u \in OptBlocks}
    \cup {FalseEdges(t, ts) : t \in Blocks, ts \in SeqsOf(Blocks, 0, MaxTargets)}

CleanupBody(tags, term) ==
    Mir(TInt, << LocalDecl(TInt, DUMMY_SP) >>, 0, None,
        [b \in Blocks |->
            Blk(<< >>, IF b = 1 THEN term ELSE Unreachable, tags[b], b)])

InitCleanup ==
    \E tags \in [Blocks -> BOOLEAN], term \in CleanupTerms :
       Start(CleanupBody(tags, term), 0, "check_iscleanup")

NextCleanup == CheckIsCleanup

SpecCleanup == InitCleanup /\ [][NextCleanup]_vars

(* The block under check, its tag and its terminator.                      *)
Checked1 == << "iscleanup", 1, 0 >> \in checked
Tag(b) == mir.basic_blocks[b].is_cleanup
Term1 == mir.basic_blocks[1].terminator

(* The successors of a terminator by section 4.4: the normal ones, which   *)
(* must carry the tag of the block, and the unwind (cleanup, failure) one, *)
(* which must be a cleanup block.                                          *)
NormalSuccessors(t) ==
    CASE t.kind = "Goto" -> << t.target >>
      [] t.kind = "SwitchInt" -> t.targets
      [] t.kind = "Yield" ->
            << t.resume >> \o (IF t.drop # NoBlock THEN << t.drop >> ELSE << >>)
      [] t.kind \in {"Drop", "DropAndReplace", "Assert"} -> << t.target >>
      [] t.kind = "Call" ->
            IF t.destination # None THEN << t.destination[1].target >> ELSE << >>
      [] t.kind = "FalseEdges" -> << t.real_target >> \o t.imaginary_targets
      [] OTHER -> << >>
UnwindSuccessor(t) ==
    CASE t.kind \in {"Drop", "DropAndReplace"} -> t.unwind
      [] t.kind \in {"Assert", "Call"} -> t.cleanup
      [] OTHER -> NoBlock

(* The bug section 4.4 documents for a terminator that may not stand in a  *)
(* block with the tag c ("" when it may).                                  *)
MisplacedBug(t, c) ==
    CASE t.kind = "Resume" /\ ~c -> "resume on non-cleanup block!"
      [] t.kind = "Return" /\ c -> "return on cleanup block"
      [] t.kind = "GeneratorDrop" /\ c -> "generator_drop in cleanup block"
      [] t.kind = "Yield" /\ c -> "yield in cleanup block"
      [] t.kind \in {"Drop", "DropAndReplace", "Assert"} /\ c
            /\ UnwindSuccessor(t) # NoBlock -> "unwind on cleanup block"
      [] t.kind = "Call" /\ c /\ UnwindSuccessor(t) # NoBlock ->
            "cleanup on cleanup block"
      [] OTHER -> ""

(* How often block b is a successor whose tag contradicts the rule.        *)
Mismatches(t, c, b) ==
    Cardinality({i \in 1..Len(NormalSuccessors(t)) :
                    NormalSuccessors(t)[i] = b /\ Tag(b) # c})
    + (IF UnwindSuccessor(t) = b /\ ~Tag(b) THEN 1 ELSE 0)

Conforms(t, c) ==
    /\ MisplacedBug(t, c) = ""
    /\ \A b \in 1..NumBlocks : Mismatches(t, c, b) = 0

BugCount(text, n) ==
    Cardinality({i \in 1..Len(bugs) :
                    bugs[i].msg.text = text /\ bugs[i].msg.n = n})

(* C5: check_iscleanup reports no bug on a block that conforms to the      *)
(* rules of section 4.4, and on any other block exactly the documented     *)
(* bugs: one mismatch for each successor whose tag contradicts the rule    *)
(* and the bug of a terminator that may not stand in a block of that tag.  *)
C5_CleanupBipartition ==
    Checked1 =>
        /\ bugs = << >> <=> Conforms(Term1, Tag(1))
        /\ \A b \in 1..NumBlocks :
              BugCount("cleanuppad mismatch", b) = Mismatches(Term1, Tag(1), b)
        /\ MisplacedBug(Term1, Tag(1)) # "" =>
              BugCount(MisplacedBug(Term1, Tag(1)), -1) = 1
        /\ \A i \in 1..Len(bugs) :
              \/ /\ bugs[i].msg.text = "cleanuppad mismatch"
                 /\ bugs[i].msg.n \in 1..NumBlocks
              \/ /\ bugs[i].msg.text = MisplacedBug(Term1, Tag(1))
                 /\ bugs[i].msg.n = -1
        /\ \A i \in 1..Len(bugs) : bugs[i].span = Term1.span

C5_Witness ==
    /\ Checked1
    /\ Term1.kind = "Call" /\ Tag(1)
    /\ Len(bugs) = 3

-----------------------------------------------------------------------------
(* check_terminator on one Call.  The callee is a function f, the          *)
(* box_free lang item, a function pointer or a non-function; the          *)
(* signature has up to MaxParams parameters and returns i32, bool or the   *)
(* never type; the call has up to MaxArgs arguments and no destination or  *)
(* the destination local 0, an i32.                                        *)

MaxArgs == MaxParams + 1
StaticRef == TRef("static", TInt)
ScopedRef == TRef("a", TInt)
ParamTys == {TInt, TRawPtr(ScopedRef)}
ArgTys == {TInt, TRawPtr(ScopedRef), TBox(StaticRef), TBox(TInt)}
CallSigs ==
    {FnSig(inputs, output, variadic) :
        inputs \in SeqsOf(ParamTys, 0, MaxParams),
        output \in {TInt, TBool, TNever}, variadic \in BOOLEAN}
CallFuncs ==
    {Constant(TFnDef("f", sig), "f") : sig \in CallSigs}
    \cup {Constant(TFnPtr(sig), "") : sig \in CallSigs}
    \cup {Constant(TFnDef(box_free_fn, sig), box_free_fn) : sig \in CallSigs}
    \cup {IntConst}
CallArgs ==
    {[i \in 1..Len(tys) |-> Constant(tys[i], "")] :
        tys \in SeqsOf(ArgTys, 0, MaxArgs)}

CallBody(func, args, destination) ==
    Mir(TInt, << LocalDecl(TInt, DUMMY_SP) >>, 0, None,
        << Blk(<< >>, Call(func, args, destination, NoBlock), FALSE, 1) >>)

InitCall ==
    \E func \in CallFuncs, args \in CallArgs,
       destination \in {None, Dest(Local(0), 1)} :
       Start(CallBody(func, args, destination), 0, "check_block")

NextCall == CheckTerminator

SpecCall == InitCall /\ [][NextCall]_vars

(* The call, once check_terminator has run on it.                          *)
CallChecked == << "terminator", 1, 0 >> \in checked
TheCall == mir.basic_blocks[1].terminator
CalleeIsFn == TheCall.func.ty.k \in {"FnDef", "FnPtr"}
CalleeIsBoxFree == CalleeIsFn /\ TheCall.func.fn = box_free_fn
NumArgs == Len(TheCall.args)
Params == TheCall.func.ty.sig.inputs
NumParams == Len(Params)
ArgTy(i) == TheCall.args[i].ty
Min(x, y) == IF x < y THEN x ELSE y

(* The sub_types calls of the argument check: those after the one of       *)
(* check_call_dest.                                                        *)
ArgSubs == IF TheCall.destination # None THEN Tail(subs) ELSE subs

BugsWith(texts) == {i \in 1..Len(bugs) : bugs[i].msg.text \in texts}
GeneralArgBugs == {"call with wrong # of args", "bad arg"}
BoxFreeArgBugs ==
    {"box_free should take 1 argument", "box_free should take a raw ptr",
     "box_free called with wrong # of args",
     "box_free called with bad arg ty", "bad box_free arg"}

(* C6: for a callee other than box_free, "wrong number of args" is         *)
(* reported exactly when there are fewer arguments than parameters, or     *)
(* more and the signature is not variadic; and whatever the arity, exactly *)
(* the first min(a, p) argument/parameter pairs are subtype-checked in     *)
(* order, a mismatch of pair n reported once with the index n.             *)
C6_CallArity ==
    (CallChecked /\ CalleeIsFn /\ ~CalleeIsBoxFree) =>
        /\ BugCount("call with wrong # of args", -1) =
              (IF \/ NumArgs < NumParams
                  \/ (NumArgs > NumParams /\ ~TheCall.func.ty.sig.variadic)
               THEN 1 ELSE 0)
        /\ Len(ArgSubs) = Min(NumArgs, NumParams)
        /\ \A i \in 1..Len(ArgSubs) :
              /\ ArgSubs[i] = [sub |-> ArgTy(i), sup |-> Params[i]]
              /\ BugCount("bad arg", i - 1) =
                    (IF SubTy(ArgTy(i), Params[i]) THEN 0 ELSE 1)
        /\ \A i \in BugsWith({"bad arg"}) :
              bugs[i].msg.n \in 0..(Min(NumArgs, NumParams) - 1)
        /\ BugsWith(BoxFreeArgBugs) = {}

C6_Witness ==
    /\ CallChecked /\ CalleeIsFn /\ ~CalleeIsBoxFree
    /\ NumArgs = 3 /\ NumParams = 2 /\ TheCall.func.ty.sig.variadic
    /\ BugCount("call with wrong # of args", -1) = 0
    /\ BugCount("bad arg", 1) = 1
    /\ BugCount("bad arg", 0) = 0

(* The argument of a box_free call that takes one raw pointer is a raw     *)
(* pointer or a box whose pointee is a subtype of the parameter's pointee. *)
Pointee(ty) == IF ty.k = "RawPtr" THEN ty.ty ELSE ty.arg
TakesRawPtr == NumParams = 1 /\ Params[1].k = "RawPtr"
CompatibleArg(ty) ==
    /\ ty.k = "RawPtr" \/ (ty.k = "Adt" /\ ty.def = "Box")
    /\ SubTy(Pointee(ty), Pointee(Params[1]))

(* C7: for the callee box_free the general argument check does not run;    *)
(* with one raw-pointer parameter and one argument that is a raw pointer   *)
(* or a box of a compatible pointee the argument check reports no bug,     *)
(* with two arguments it reports "wrong number of args", and in every case *)
(* it reports at most one bug.                                             *)
C7_BoxFree ==
    (CallChecked /\ CalleeIsBoxFree) =>
        /\ BugsWith(GeneralArgBugs) = {}
        /\ Cardinality(BugsWith(BoxFreeArgBugs)) <= 1
        /\ (TakesRawPtr /\ NumArgs = 1 /\ CompatibleArg(ArgTy(1))) =>
              /\ BugsWith(BoxFreeArgBugs) = {}
              /\ ArgSubs = << [sub |-> Pointee(ArgTy(1)),
                               sup |-> Pointee(Params[1])] >>
        /\ (TakesRawPtr /\ NumArgs = 2) =>
              /\ BugCount("box_free called with wrong # of args", -1) = 1
              /\ ArgSubs = << >>

C7_Witness ==
    /\ CallChecked /\ CalleeIsBoxFree /\ TakesRawPtr
    /\ NumArgs = 1 /\ ArgTy(1) = TBox(StaticRef)
    /\ Pointee(ArgTy(1)) # Pointee(Params[1])
    /\ TheCall.destination # None
    /\ bugs = << >>

-----------------------------------------------------------------------------
(* The resolver on one statement that assigns to a Subslice projection of  *)
(* local 1.  from and to range over all of u32, the length of the array    *)
(* over 0..MaxArrayLen and the largest u64.                                *)

ArrayLens == (0..MaxArrayLen) \cup {U64 - 1}
SubsliceBases ==
    {TArray(elem, len) : elem \in {TInt, TBool}, len \in ArrayLens}
    \cup {TSlice(TInt), TInt}

PlaceBody(base_ty, place) ==
    Mir(TInt, << LocalDecl(TInt, DUMMY_SP), LocalDecl(base_ty, DUMMY_SP) >>,
        0, None,
        << Blk(<< Assign(place, Use(IntConst)) >>, Return, FALSE, 1) >>)

InitSubslice ==
    \E base_ty \in SubsliceBases, from \in 0..(U32 - 1), to \in 0..(U32 - 1) :
       Start(PlaceBody(base_ty, Projection(Local(1), Subslice(from, to))),
             0, "super_mir")

NextSubslice == VisitStatement

SpecSubslice == InitSubslice /\ [][NextSubslice]_vars

(* The place of the statement, once the resolver has visited it.           *)
PlaceVisited == << "statement", 1, 1 >> \in visited
ThePlace == mir.basic_blocks[1].statements[1].lvalue
BaseTy == mir.local_decls[2].ty

(* C8: on an array of length L, Subslice{from, to} resolves to the array   *)
(* of the same element type and length L - from - to, without a bug, when  *)
(* from + to <= L; otherwise exactly one "too-small slice" bug is          *)
(* reported, the resolved type is the error type and errors_reported is    *)
(* set.  from + to is the sum of the integers: it does not wrap.           *)
C8_SubsliceArithmetic ==
    (PlaceVisited /\ ThePlace.elem.k = "Subslice" /\ BaseTy.k = "Array") =>
        LET a == ThePlace.elem.from
            b == ThePlace.elem.to
            L == BaseTy.len
        IN  IF a + b <= L
            THEN /\ resolved = LvTy(TArray(BaseTy.elem, L - a - b))
                 /\ bugs = << >>
                 /\ ~errors_reported
            ELSE /\ Len(bugs) = 1
                 /\ bugs[1].msg.text = "taking too-small slice of"
                 /\ resolved = LvTy(TErr)
                 /\ errors_reported

C8_Witness ==
    /\ PlaceVisited /\ ThePlace.elem.k = "Subslice" /\ BaseTy.k = "Array"
    /\ ThePlace.elem.from + ThePlace.elem.to >= U32
    /\ BaseTy.len < U32
    /\ Len(bugs) = 1 /\ errors_reported /\ resolved = LvTy(TErr)

-----------------------------------------------------------------------------
(* The resolver on one statement that assigns to a Field projection: of a  *)
(* struct, of a variant of an enum, of a tuple, a closure or a generator,  *)
(* and of types that have no fields.  The field index ranges over          *)
(* 0..MaxField, the declared type of the field over FieldTys.              *)

FieldBaseTys ==
    {TAdt("S", TBool), TAdt("S", TAssoc("ok")), TAdt("E", TBool),
     TTuple(<< TInt, TChar >>), TClosure("c"), TGenerator("g"), TInt}
FieldTys == {TInt, TBool, TUsize, TChar, TInfer, TAssoc("ok")}
FieldBases(base_ty) ==
    {Local(1)}
    \cup (IF base_ty.k = "Adt" /\ base_ty.def = "E"
          THEN {Projection(Local(1), Downcast("E", v)) : v \in {0, 1}}
          ELSE {})

InitField ==
    \E base_ty \in FieldBaseTys, field \in 0..MaxField, fty \in FieldTys :
       \E base \in FieldBases(base_ty) :
          Start(PlaceBody(base_ty, Projection(base, Field(field, fty))),
                0, "super_mir")

NextField == VisitStatement

SpecField == InitField /\ [][NextField]_vars

(* The fields of the aggregate that the base of the place denotes, as the  *)
(* definitions of the types give them: the fields of the struct or of the  *)
(* variant with the type argument in place and associated types resolved,  *)
(* the elements of the tuple, the upvars of the closure, the fields of the *)
(* generator.  No fields for a type that is not a known aggregate.         *)
VariantFields(def, arg, v) ==
    [i \in 1..Len(AdtVariants(def)[v]) |->
        NormalizeTy(SubstTy(AdtVariants(def)[v][i], arg))]
AggregateFields ==
    CASE ThePlace.base.k = "Projection" ->
            VariantFields(BaseTy.def, BaseTy.arg, ThePlace.base.elem.index + 1)
      [] BaseTy.k = "Adt" /\ BaseTy.def = "S" ->
            VariantFields(BaseTy.def, BaseTy.arg, 1)
      [] BaseTy.k = "Tuple" -> BaseTy.tys
      [] BaseTy.k = "Closure" -> upvar_tys(BaseTy.def)
      [] BaseTy.k = "Generator" -> field_tys(BaseTy.def)
      [] OTHER -> << >>
KnownField ==
    /\ PlaceVisited
    /\ ThePlace.elem.k = "Field"
    /\ ThePlace.elem.field < Len(AggregateFields)
    /\ ~BadType(ThePlace.elem.fty)
DerivedFieldTy == AggregateFields[ThePlace.elem.field + 1]

(* C9: a Field projection of a known field of a known aggregate resolves   *)
(* without a bug to the type of the field when the declared type of the    *)
(* field is the type derived from the aggregate; with any other sane       *)
(* declared type exactly one bug, "bad field access", is reported.         *)
C9_FieldRoundTrip ==
    KnownField =>
        IF ThePlace.elem.fty = DerivedFieldTy
        THEN /\ bugs = << >>
             /\ resolved = LvTy(DerivedFieldTy)
             /\ ~errors_reported
        ELSE /\ Len(bugs) = 1
             /\ bugs[1].msg.text = "bad field access"

C9_Witness ==
    /\ KnownField
    /\ ThePlace.base.k = "Projection" /\ ThePlace.base.elem.index = 1
    /\ ThePlace.elem.field = 0
    /\ ThePlace.elem.fty = TInt
    /\ DerivedFieldTy = TBool
    /\ Len(bugs) = 1 /\ bugs[1].msg.text = "bad field access"

-----------------------------------------------------------------------------
(* typeck_mir on the local declarations.  The body has the return slot and *)
(* up to MaxLocals more locals, the first arg_count of them arguments;     *)
(* every local has a sized or an unsized type and one of two spans.        *)

OtherSpan == BodySpan + 1
SizedDecls ==
    {LocalDecl(TInt, BodySpan)}
    \cup {LocalDecl(ty, span) :
             ty \in {TStr, TSlice(TInt)}, span \in {BodySpan, OtherSpan}}

InitSized ==
    \E local_decls \in SeqsOf(SizedDecls, 1, MaxLocals + 1) :
       \E arg_count \in 0..(Len(local_decls) - 1) :
          Start(Mir(TInt, local_decls, arg_count, None,
                    << Blk(<< >>, Return, FALSE, 1) >>),
                0, "check_locals")

NextSized == CheckLocal

SpecSized == InitSized /\ [][NextSized]_vars

(* The (type, span) pairs of the unsized locals among the first n that are *)
(* neither the return slot nor an argument.                                *)
UnsizedPairs(n) ==
    {[ty |-> mir.local_decls[i + 1].ty, span |-> mir.local_decls[i + 1].span] :
        i \in {j \in 0..(n - 1) :
                  /\ j > mir.arg_count
                  /\ mir.local_decls[j + 1].ty.k \in {"Str", "Slice"}}}

(* C10: after any number of locals has been checked, the diagnostics       *)
(* emitted are one for each distinct (type, span) pair among the checked   *)
(* locals that are neither the return slot nor an argument and have an     *)
(* unsized type: an unsized return slot or argument gives none, and a pair *)
(* seen again gives none.                                                  *)
C10_SizednessDedup ==
    /\ Len(diags) = Cardinality(UnsizedPairs(li))
    /\ {diags[i] : i \in 1..Len(diags)} = UnsizedPairs(li)
    /\ reported_errors = UnsizedPairs(li)

C10_Witness ==
    /\ pc = "check_block" /\ li = NumLocals /\ NumLocals = 4
    /\ mir.arg_count = 1
    /\ ~is_sized(local_ty(mir, 0))
    /\ ~is_sized(local_ty(mir, 1))
    /\ ~is_sized(local_ty(mir, 2))
    /\ mir.local_decls[3] = mir.local_decls[4]
    /\ Len(diags) = 1

-----------------------------------------------------------------------------
(* sanitize_type on every type of depth up to MaxTypeDepth over the types  *)
(* i32, a type parameter, an inference variable and the error type, built  *)
(* with references (of a free and of a bound region), raw pointers and the *)
(* struct S.                                                               *)

RECURSIVE TypesOfDepth(_)
TypesOfDepth(d) ==
    IF d = 0 THEN {TInt, TParam, TInfer, TErr}
    ELSE LET inner == TypesOfDepth(d - 1)
         IN  TypesOfDepth(0)
             \cup {TRef(rg, t) : rg \in {"a", "bound"}, t \in inner}
             \cup {TRawPtr(t) : t \in inner}
             \cup {TAdt("S", t) : t \in inner}

InitSanitize ==
    \E t \in TypesOfDepth(MaxTypeDepth) :
       Start(Mir(t, << LocalDecl(TInt, DUMMY_SP) >>, 0, None,
                 << Blk(<< >>, Return, FALSE, 1) >>),
             0, "sanitize")

NextSanitize == SanitizeType

SpecSanitize == InitSanitize /\ [][NextSanitize]_vars

(* The defects of a type, found anywhere in it: an inference variable, a   *)
(* region bound outside the type, the error type.                          *)
RECURSIVE Defects(_)
Defects(t) ==
    (IF t.k = "Infer" THEN {"placeholder"} ELSE {})
    \cup (IF t.k = "Ref" /\ t.rg = "bound" THEN {"escaping"} ELSE {})
    \cup (IF t.k = "Error" THEN {"error"} ELSE {})
    \cup UNION {Defects(c) : c \in Components(t)}
SanitizedTy == mir.return_ty

(* C11: sanitize_type returns a type without defect unchanged, reports no  *)
(* bug and leaves errors_reported as it was; on a type with a defect it    *)
(* reports exactly one bug, returns the error type and sets                *)
(* errors_reported.  Applied again to what it returned for a type without  *)
(* defect it returns that type again, still without a bug.                 *)
C11_SanitizeIdempotent ==
    /\ li = 1 =>
          IF Defects(SanitizedTy) = {}
          THEN /\ resolved = LvTy(SanitizedTy)
               /\ bugs = << >>
               /\ ~errors_reported
          ELSE /\ Len(bugs) = 1
               /\ bugs[1].msg.text = "bad type"
               /\ resolved = LvTy(TErr)
               /\ errors_reported
    /\ (li = 2 /\ Defects(SanitizedTy) = {}) =>
          /\ resolved = LvTy(SanitizedTy)
          /\ bugs = << >>
          /\ ~errors_reported

C11_Witness ==
    /\ li = 2
    /\ SanitizedTy = TRef("a", TAdt("S", TParam))
    /\ resolved = LvTy(SanitizedTy)
    /\ bugs = << >>

-----------------------------------------------------------------------------
(* The resolver on a body whose one statement assigns to a chain of up to  *)
(* MaxChain projections of every kind over local 1 or a static, from       *)
(* visit_mir on.  Local 1 has a type with fields, elements or a referent,  *)
(* or a type without, or a type sanitize_type rejects; local 2 is a usize. *)

ChainElems ==
    {Deref, Index(2), Index(0), ConstantIndex, Subslice(0, 1),
     Downcast("E", 0), Downcast("E", 2),
     Field(0, TInt), Field(1, TBool), Field(MaxField, TInt), Field(0, TInfer)}
ChainLocalTys ==
    {TRef("a", TAdt("S", TInt)), TAdt("S", TInt), TAdt("E", TInt),
     TArray(TAdt("S", TInt), 2), TInt, TInfer, TRawPtr(TErr)}
ChainRoots ==
    {Local(1), Static("G1", TInt), Static("G1", TBool), Static("G1", TInfer),
     Static("G2", TInt)}

RECURSIVE Chains(_)
Chains(n) ==
    IF n = 0 THEN ChainRoots
    ELSE Chains(n - 1)
         \cup {Projection(base, elem) : base \in Chains(n - 1), elem \in ChainElems}

ChainBody(ty, place) ==
    Mir(TInt,
        << LocalDecl(TInt, DUMMY_SP), LocalDecl(ty, DUMMY_SP),
           LocalDecl(TUsize, DUMMY_SP) >>,
        0, None,
        << Blk(<< Assign(place, Use(IntConst)) >>, Return, FALSE, 1) >>)

InitChain ==
    \E ty \in ChainLocalTys, place \in Chains(MaxChain) :
       Start(ChainBody(ty, place), 0, "visit_mir")

NextChain == VisitMir \/ VisitStatement

SpecChain == InitChain /\ [][NextChain]_vars

(* What sanitize_lvalue gives for a place of the statement on its own.     *)
ResolveAlone(place) == sanitize_lvalue(AloneSt("verify"), Cx, place)
IsErrorTy(lty) == lty.k = "Ty" /\ references_error(lty.ty)

(* C12, as claimed: when resolving the base of a projection has reported a *)
(* bug, the type returned for the base is the error type, and the          *)
(* projection on top of it reports no further bug.                         *)
C12_ErrorTypeAtViolatingSite ==
    (/\ PlaceVisited
     /\ ThePlace.k = "Projection"
     /\ ResolveAlone(ThePlace.base).st.bugs # << >>) =>
        /\ ResolveAlone(ThePlace.base).lty = LvTy(TErr)
        /\ bugs = ResolveAlone(ThePlace.base).st.bugs

(* C13: a projection whose base resolved to a flat type that carries the   *)
(* error type resolves to the error type at once: the projection itself,   *)
(* of whatever kind and on a chain of whatever length, reports no bug.     *)
C13_ErrorPropagatesAlongChain ==
    (/\ PlaceVisited
     /\ ThePlace.k = "Projection"
     /\ IsErrorTy(ResolveAlone(ThePlace.base).lty)) =>
        /\ resolved = LvTy(TErr)
        /\ bugs = ResolveAlone(ThePlace.base).st.bugs
        /\ bugs # << >>
        /\ pc # "ice"

C13_Witness ==
    /\ PlaceVisited
    /\ ThePlace = Projection(Projection(Local(1), Deref), Field(0, TInt))
    /\ local_ty(mir, 1) = TInt
    /\ resolved = LvTy(TErr)
    /\ Len(bugs) = 1 /\ bugs[1].msg.text = "deref of non-pointer"

(* The places the resolver resolves on the way to a place.                 *)
RECURSIVE SubPlaces(_)
SubPlaces(place) ==
    {place} \cup (IF place.k = "Projection" THEN SubPlaces(place.base) ELSE {})

(* C17: the assertion of sanitize_lvalue holds wherever the walk of the    *)
(* resolver comes: a local declaration that carries an error ends the walk *)
(* before a place is visited, and when the base of a projection of the     *)
(* statement resolves to a flat type that carries the error type,          *)
(* errors_reported is set by then.  The walk never panics.                 *)
C17_AssertionNeverFails ==
    /\ pc # "ice"
    /\ (BadType(mir.return_ty) \/ BadLocals # {}) => ~PlaceVisited
    /\ pc = "super_mir" =>
          \A p \in SubPlaces(mir.basic_blocks[1].statements[1].lvalue) :
             (p.k = "Projection"
              /\ IsErrorTy(sanitize_lvalue(St("verify"), Cx, p.base).lty))
             => sanitize_lvalue(St("verify"), Cx, p.base).st.errors_reported

C17_Witness ==
    /\ PlaceVisited
    /\ pc = "super_mir"
    /\ ThePlace.k = "Projection"
    /\ ThePlace.base = Projection(Static("G1", TInfer), Deref)
    /\ errors_reported
    /\ resolved = LvTy(TErr)

-----------------------------------------------------------------------------
(* The destination of the call and the return type of the callee.          *)
HasDest == TheCall.destination # None
DestTy == local_ty(mir, TheCall.destination[1].lvalue.index)
Output == TheCall.func.ty.sig.output
DestBugs == {"call dest mismatch", "call to converging function w/o dest"}

(* C14: for a callee that is a function item or a function pointer, with   *)
(* a destination the return type of the signature is checked to be a       *)
(* subtype of the type of the destination, a mismatch reported as one bug; *)
(* without a destination a bug is reported exactly when the return type is *)
(* not the never type.  The check comes before the check of the arguments  *)
(* whatever that one finds, also for box_free.  For any other callee the   *)
(* one bug is "call to non-function" and nothing is checked.               *)
C14_CallDest ==
    CallChecked =>
        IF CalleeIsFn
        THEN /\ BugCount("call to non-function", -1) = 0
             /\ HasDest =>
                   /\ subs # << >>
                   /\ subs[1] = [sub |-> Output, sup |-> DestTy]
                   /\ BugCount("call dest mismatch", -1) =
                         (IF SubTy(Output, DestTy) THEN 0 ELSE 1)
                   /\ BugCount("call to converging function w/o dest", -1) = 0
             /\ ~HasDest =>
                   /\ BugCount("call to converging function w/o dest", -1) =
                         (IF Output.k = "Never" THEN 0 ELSE 1)
                   /\ BugCount("call dest mismatch", -1) = 0
             /\ BugsWith(DestBugs) \subseteq {1}
        ELSE /\ Len(bugs) = 1
             /\ bugs[1].msg.text = "call to non-function"
             /\ subs = << >>

C14_Witness ==
    /\ CallChecked /\ CalleeIsBoxFree /\ HasDest
    /\ Output = TBool
    /\ NumArgs = 2 /\ TakesRawPtr
    /\ Len(bugs) = 2
    /\ bugs[1].msg.text = "call dest mismatch"
    /\ bugs[2].msg.text = "box_free called with wrong # of args"

-----------------------------------------------------------------------------
(* typeck_mir over the blocks of a whole body of MaxGraphBlocks blocks     *)
(* with any is_cleanup tags.  One block has a terminator of any kind with  *)
(* any successors; the others go to any block, return or resume.  The      *)
(* terminators are well typed: the body is a generator that yields i32.    *)

GraphBlocks == 1..MaxGraphBlocks
OptGraphBlocks == {NoBlock} \cup GraphBlocks
FnReturning(output) ==
    Constant(TFnDef("f", FnSig(<< >>, output, FALSE)), "f")
PlainTerms == {Return, Resume} \cup {Goto(t) : t \in GraphBlocks}
GraphTerms ==
    PlainTerms
    \cup {GeneratorDrop, Unreachable}
    \cup {SwitchInt(IntConst, TInt, << t >>) : t \in GraphBlocks}
    \cup {Yield(IntConst, r, d) : r \in GraphBlocks, d \in OptGraphBlocks}
    \cup {Drop(Local(0), t, u) : t \in GraphBlocks, u \in OptGraphBlocks}
    \cup {DropAndReplace(Local(0), IntConst, t, u) :
             t \in GraphBlocks, u \in OptGraphBlocks}
    \cup {AssertTerm(Constant(TBool, ""), OtherMsg, t, u) :
             t \in GraphBlocks, u \in OptGraphBlocks}
    \cup {Call(FnReturning(TInt), << >>, Dest(Local(0), t), u) :
             t \in GraphBlocks, u \in OptGraphBlocks}
    \cup {Call(FnReturning(TNever), << >>, None, u) : u \in OptGraphBlocks}
    \cup {FalseEdges(t, << i >>) : t \in GraphBlocks, i \in GraphBlocks}

InitGraph ==
    \E tags \in [GraphBlocks -> BOOLEAN], free \in GraphBlocks,
       terms \in [GraphBlocks -> GraphTerms] :
       /\ \A b \in GraphBlocks \ {free} : terms[b] \in PlainTerms
       /\ Start(Mir(TInt, << LocalDecl(TInt, DUMMY_SP) >>, 0, Some(TInt),
                    [b \in GraphBlocks |-> Blk(<< >>, terms[b], tags[b], b)]),
                0, "check_block")

NextGraph == CheckTerminator \/ CheckIsCleanup

SpecGraph == InitGraph /\ [][NextGraph]_vars

(* The edges of the control-flow graph: the normal successors of a block,  *)
(* and all its successors.                                                 *)
TermOf(b) == mir.basic_blocks[b].terminator
NormalEdges(b) ==
    {NormalSuccessors(TermOf(b))[i] : i \in 1..Len(NormalSuccessors(TermOf(b)))}
UnwindEdges(b) == {UnwindSuccessor(TermOf(b))} \ {NoBlock}
Edges(b) == NormalEdges(b) \cup UnwindEdges(b)

(* The blocks reachable from the blocks of a set in at most n steps.       *)
RECURSIVE ReachIn(_, _)
ReachIn(set, n) ==
    IF n = 0 THEN set
    ELSE ReachIn(set \cup UNION {Edges(b) : b \in set}, n - 1)
Reachable(b) == ReachIn({b}, NumBlocks)

CleanupBugs ==
    {"cleanuppad mismatch", "resume on non-cleanup block!",
     "return on cleanup block", "generator_drop in cleanup block",
     "yield in cleanup block", "unwind on cleanup block",
     "cleanup on cleanup block"}
AllBlocksChecked ==
    pc = "done" /\ \A b \in 1..NumBlocks : << "iscleanup", b, 0 >> \in checked

(* C16: in a body on which check_iscleanup has reported no bug for any     *)
(* block, every edge out of a cleanup block leads to a cleanup block, an   *)
(* edge from a block that is not cleanup into a cleanup block is the       *)
(* unwind edge of a Drop, DropAndReplace, Assert or the cleanup edge of a  *)
(* Call, and so every block reachable from a cleanup block is a cleanup    *)
(* block and does not end in Return, GeneratorDrop or Yield.               *)
C16_CleanupClosed ==
    (AllBlocksChecked /\ BugsWith(CleanupBugs) = {}) =>
        \A b \in 1..NumBlocks :
           /\ Tag(b) => \A s \in Edges(b) : Tag(s)
           /\ ~Tag(b) =>
                 /\ \A s \in NormalEdges(b) : ~Tag(s)
                 /\ \A s \in Edges(b) :
                       Tag(s) => /\ s \in UnwindEdges(b)
                                 /\ TermOf(b).kind \in
                                       {"Drop", "DropAndReplace", "Assert", "Call"}
           /\ Tag(b) =>
                 \A c \in Reachable(b) :
                    /\ Tag(c)
                    /\ TermOf(c).kind \notin {"Return", "GeneratorDrop", "Yield"}

C16_Witness ==
    /\ AllBlocksChecked /\ bugs = << >>
    /\ ~Tag(1) /\ Tag(2)
    /\ TermOf(1).kind = "Call" /\ TermOf(1).cleanup = 2
    /\ TermOf(1).destination # None
    /\ TermOf(2) = [Goto(2) EXCEPT !.span = TermSpan(2)]
    /\ Reachable(2) = {2}

-----------------------------------------------------------------------------
(* The generator g as the base of a Field projection.  Its fields are its  *)
(* upvars and, behind them, its state.                                     *)
GeneratorBase ==
    /\ PlaceVisited
    /\ ThePlace.elem.k = "Field"
    /\ ThePlace.base.k = "Local"
    /\ BaseTy.k = "Generator"
    /\ ~BadType(ThePlace.elem.fty)
UpvarCount == Len(upvar_tys(BaseTy.def))
StateFieldCount == Len(field_tys(BaseTy.def)) - UpvarCount
OutOfRangeBugs ==
    {i \in 1..Len(bugs) :
        bugs[i].msg.text = "accessed field but variant only has"}

(* C15: a Field projection of a generator resolves an index below the      *)
(* number of upvars to that upvar and an index behind the upvars to the    *)
(* state field at that index; for any other index one out-of-range bug is  *)
(* reported, and the field count it carries is the number of upvars plus   *)
(* the number of state fields.                                             *)
C15_GeneratorFieldCount ==
    GeneratorBase =>
        LET i == ThePlace.elem.field IN
        IF i < UpvarCount
        THEN OutOfRangeBugs = {}
        ELSE IF i < UpvarCount + StateFieldCount
        THEN OutOfRangeBugs = {}
        ELSE /\ Cardinality(OutOfRangeBugs) = 1
             /\ \A b \in OutOfRangeBugs :
                   bugs[b].msg.n = UpvarCount + StateFieldCount

-----------------------------------------------------------------------------
(* typeck_mir from its start, on bodies of two locals and two blocks, none *)
(* of them cleanup.  The first block holds up to MaxStmts statements, the  *)
(* second at most one; a statement is a well-typed or an ill-typed         *)
(* assignment; a terminator is one that passes both checks (Return), one   *)
(* that fails the cleanup check (Resume), one that fails the type check    *)
(* (SwitchInt on a bool as i32) and one that fails both (a call of an      *)
(* integer with a cleanup edge to a block that is not cleanup).  Every     *)
(* statement and every terminator has its own span or the dummy span.      *)

SpanStmtKinds ==
    { Assign(Local(0), Use(IntConst)),
      Assign(Local(0), Use(Constant(TBool, ""))) }
SpanTermKinds ==
    { Return, Resume,
      SwitchInt(Constant(TBool, ""), TInt, << 1 >>),
      Call(IntConst, << >>, None, 1) }
SpanStmts(b, n) ==
    {stmts \in [1..n -> [kind : {"Assign"}, lvalue : {Local(0)},
                          rvalue : {k.rvalue : k \in SpanStmtKinds},
                          span : {DUMMY_SP} \cup {StmtSpan(b, s) : s \in 1..n}]] :
        \A s \in 1..n : stmts[s].span \in {DUMMY_SP, StmtSpan(b, s)}}
SpanTerms(b) ==
    SpanTermKinds \cup {SpannedTerm(t, b) : t \in SpanTermKinds}
SpanBlocks(b, most) ==
    {BasicBlockData(stmts, term, FALSE) :
        stmts \in UNION {SpanStmts(b, n) : n \in 0..most},
        term \in SpanTerms(b)}

InitSpan ==
    \E b1 \in SpanBlocks(1, MaxStmts), b2 \in SpanBlocks(2, 1) :
       Start(Mir(TInt, << LocalDecl(TInt, DUMMY_SP), LocalDecl(TStr, DUMMY_SP) >>,
                 0, None, << b1, b2 >>),
             0, "verified")

NextSpan ==
    \/ TypeckMirStart
    \/ CheckLocal
    \/ CheckStmt
    \/ CheckTerminator
    \/ CheckIsCleanup

SpecSpan == InitSpan /\ [][NextSpan]_vars

(* The checks of typeck_mir in the order the claim gives: the locals, then *)
(* block by block the statements, the terminator and the cleanup check.    *)
RECURSIVE BlockOrder(_)
BlockOrder(b) ==
    IF b > NumBlocks THEN << >>
    ELSE [s \in 1..Len(mir.basic_blocks[b].statements) |-> << "stmt", b, s >>]
         \o << << "terminator", b, 0 >>, << "iscleanup", b, 0 >> >>
         \o BlockOrder(b + 1)
CheckOrder == [l \in 1..NumLocals |-> << "local", l - 1, 0 >>] \o BlockOrder(1)

(* The span check_terminator of block b reports at: that of the last       *)
(* statement of the block whose span is not the dummy span, else that of   *)
(* the terminator of the block before, else that of the body.              *)
NonDummyStmts(b) ==
    {s \in 1..Len(mir.basic_blocks[b].statements) :
        mir.basic_blocks[b].statements[s].span # DUMMY_SP}
LastOf(S) == CHOOSE s \in S : \A r \in S : r <= s
TerminatorCursor(b) ==
    IF NonDummyStmts(b) # {}
    THEN mir.basic_blocks[b].statements[LastOf(NonDummyStmts(b))].span
    ELSE IF b = 1 THEN mir.span
    ELSE mir.basic_blocks[b - 1].terminator.span

(* The bugs a step reports, and the check a step makes.                    *)
NewBugs == SubSeq(bugs', Len(bugs) + 1, Len(bugs'))
NewBugsAt(span) == \A i \in 1..Len(NewBugs) : NewBugs[i].span = span
Made(kind) ==
    \E c \in checked' \ checked : c[1] = kind
MadeAt == (CHOOSE c \in checked' \ checked : TRUE)[2]

(* C18: typeck_mir sets last_span to the span of the body when it starts;  *)
(* it makes its checks in the order locals, then block by block the        *)
(* statements, check_terminator, check_iscleanup; a check of a local       *)
(* leaves last_span alone; a statement moves it to its span when that is   *)
(* not the dummy span, before the statement is checked; check_terminator   *)
(* leaves it alone, so its bugs carry the span of the last statement of    *)
(* the block with a span, else of the terminator of the block before, else *)
(* of the body, and not the span of the terminator checked;                *)
(* check_iscleanup moves it to the span of the terminator, dummy or not,   *)
(* and its bugs carry that span.                                           *)
C18_SpanAttribution ==
    [][ /\ (pc = "verified" /\ pc' = "check_locals") => last_span' = mir.span
        /\ checked' # checked =>
              /\ Cardinality(checked) < Len(CheckOrder)
              /\ checked' = checked \cup {CheckOrder[Cardinality(checked) + 1]}
        /\ Made("local") => last_span' = last_span /\ NewBugs = << >>
        /\ Made("stmt") =>
              LET stmt == mir.basic_blocks[MadeAt].statements[si] IN
              /\ last_span' = IF stmt.span # DUMMY_SP THEN stmt.span
                              ELSE last_span
              /\ NewBugsAt(last_span')
        /\ Made("terminator") =>
              /\ last_span' = last_span
              /\ last_span = TerminatorCursor(MadeAt)
              /\ NewBugsAt(TerminatorCursor(MadeAt))
              /\ mir.basic_blocks[MadeAt].terminator.span # DUMMY_SP =>
                    ~\E i \in 1..Len(NewBugs) :
                        NewBugs[i].span = mir.basic_blocks[MadeAt].terminator.span
        /\ Made("iscleanup") =>
              /\ last_span' = mir.basic_blocks[MadeAt].terminator.span
              /\ NewBugsAt(mir.basic_blocks[MadeAt].terminator.span)
      ]_vars

(* The second block has a statement without a span and a terminator with a *)
(* span that fails both checks, behind a first block whose terminator has  *)
(* no span: the two bugs of check_terminator and check_iscleanup of the    *)
(* second block are reported at the dummy span and at the terminator.      *)
C18_Witness ==
    /\ pc = "done"
    /\ checked = {CheckOrder[i] : i \in 1..Len(CheckOrder)}
    /\ NonDummyStmts(1) # {} /\ NonDummyStmts(2) = {}
    /\ Len(mir.basic_blocks[2].statements) = 1
    /\ mir.basic_blocks[1].terminator = Return
    /\ mir.basic_blocks[2].terminator.kind = "Call"
    /\ mir.basic_blocks[2].terminator.span = TermSpan(2)
    /\ Len(bugs) = 2
    /\ bugs[1].msg.text = "call to non-function" /\ bugs[1].span = DUMMY_SP
    /\ bugs[2].msg.text = "cleanuppad mismatch" /\ bugs[2].span = TermSpan(2)


=============================================================================
